---- MODULE Spec2Model ----
(***************************************************************************)
(* es-codec: the tagged binary codec of es-codec.js (createCodecImpl,      *)
(* encodeImpl, decodeImpl and the per-variant encoders and decoders).      *)
(*                                                                         *)
(* A JavaScript value is modelled as a record [t, a, b]: t is the variant, *)
(* a and b are sequences of integers (the payload).  Values with object    *)
(* identity are [t |-> "ref", a |-> <<id>>]; the object itself is a node   *)
(* of a heap.  Strings are sequences of Unicode code points, byte buffers  *)
(* are sequences of 0..255.                                                *)
(*                                                                         *)
(* encodeImpl builds its result with concatArrayBuffers(tag, ..children),  *)
(* whose arguments JavaScript evaluates left to right; the bytes of the    *)
(* result are therefore the bytes in evaluation order, and the encoder is  *)
(* modelled as a work stack that appends to `out`.  A throw discards out.  *)
(***************************************************************************)
EXTENDS Integers, Sequences, FiniteSets, TLC

(***************************** bounds **************************************)
\* most objects in a generated value graph
MaxObjs == 3
\* most children (items, entries) of one generated container
MaxItems == 2

(***************************** type tags ***********************************)
NULL == 1
UNDEFINED == 2
TRUE_TAG == 3
FALSE_TAG == 4
REFERENCE == 5
NUMBER == 6
DATE == 7
REGEXP == 8
STRING_TAG == 9
BIGINTN == 10
BIGINTP == 11
ARRAY == 12
OBJECT == 13
SET == 14
MAP == 15
ERROR == 32
EVAL_ERROR == 33
RANGE_ERROR == 34
REFERENCE_ERROR == 35
SYNTAX_ERROR == 36
TYPE_ERROR == 37
URI_ERROR == 38
ARRAYBUFFER == 64
DATAVIEW == 65
INT8ARRAY == 66
UINT8ARRAY == 67
UINT8CLAMPEDARRAY == 68
INT16ARRAY == 69
UINT16ARRAY == 70
INT32ARRAY == 71
UINT32ARRAY == 72
FLOAT32ARRAY == 73
FLOAT64ARRAY == 74
BIGINT64ARRAY == 75
BIGUINT64ARRAY == 76
EXTENSION == 128

\* the largest uint64Count encodeBigInt accepts (it is written with setUint8)
MaxUint64Count == 255

(***************************** bytes and bits ******************************)
\* JavaScript's a & b on non-negative integers
RECURSIVE BitAnd(_, _)
BitAnd(a, b) ==
    IF a = 0 \/ b = 0 THEN 0
    ELSE (IF a % 2 = 1 /\ b % 2 = 1 THEN 1 ELSE 0) + 2 * BitAnd(a \div 2, b \div 2)

\* JavaScript's a | b on non-negative integers
RECURSIVE BitOr(_, _)
BitOr(a, b) ==
    IF a = 0 THEN b
    ELSE IF b = 0 THEN a
    ELSE (IF a % 2 = 1 \/ b % 2 = 1 THEN 1 ELSE 0) + 2 * BitOr(a \div 2, b \div 2)

\* 2^n
RECURSIVE Pow2(_)
Pow2(n) == IF n = 0 THEN 1 ELSE 2 * Pow2(n - 1)

\* seq[from .. from+len-1], 1-based, clipped to the sequence (ArrayBuffer.slice)
Slice(seq, from, len) ==
    LET hi == IF from + len - 1 > Len(seq) THEN Len(seq) ELSE from + len - 1
    IN  IF hi < from THEN <<>> ELSE SubSeq(seq, from, hi)

\* buffer.slice(begin, end) of an ArrayBuffer: a negative index counts from
\* the end, both are clamped to the buffer
arraySlice(buffer, begin, end) ==
    LET len == Len(buffer)
        rel(i) == IF i < 0 THEN (IF len + i < 0 THEN 0 ELSE len + i)
                  ELSE IF i > len THEN len ELSE i
    IN  IF rel(end) <= rel(begin) THEN <<>> ELSE SubSeq(buffer, rel(begin) + 1, rel(end))

\* self.offset += length; a sum past the range of the integers of the model
\* is kept at an offset that is as much outside every buffer
advance(off, length) == IF length > Pow2(30) THEN off + Pow2(30) ELSE off + length

\* concatArrayBuffers(...buffers)
RECURSIVE concatArrayBuffers(_)
concatArrayBuffers(buffers) ==
    IF buffers = <<>> THEN <<>>
    ELSE Head(buffers) \o concatArrayBuffers(Tail(buffers))

(***************************** varint **************************************)
\* varIntByteCount(num): num >>>= 7 until num < 128
RECURSIVE varIntByteCount(_)
varIntByteCount(num) ==
    IF num >= 128 THEN 1 + varIntByteCount(num \div 128) ELSE 1

\* the loop of encodeVarint from byte i on
RECURSIVE encodeVarintFrom(_, _, _)
encodeVarintFrom(num, i, byteCount) ==
    IF i >= byteCount THEN <<>>
    ELSE <<BitOr(num % 128, IF i = byteCount - 1 THEN 0 ELSE 128)>>
         \o encodeVarintFrom(num \div 128, i + 1, byteCount)

encodeVarint(num) == encodeVarintFrom(num, 0, varIntByteCount(num))

\* the bits (0 = lowest) that are 1 in (varIntPart & 0b01111111) << shift: the
\* shift is one of 32-bit integers, its count is taken modulo 32 and the bits
\* that leave the 32 are lost
shiftedBits(varIntPart, shift) ==
    { j + (shift % 32) : j \in { i \in 0..6 : (varIntPart \div Pow2(i)) % 2 = 1 } } \cap (0..31)

\* the 32-bit two's complement integer with the given bits
RECURSIVE sumOfBits(_)
sumOfBits(bits) ==
    IF bits = {} THEN 0
    ELSE LET i == CHOOSE i \in bits : TRUE
         IN  Pow2(i) + sumOfBits(bits \ {i})

toInt32(bits) ==
    IF 31 \in bits THEN sumOfBits(bits \ {31}) - Pow2(30) - Pow2(30) ELSE sumOfBits(bits)

\* decodeVarint(self, buffer) at the 0-based offset off: num |= part << shift
\* over the bytes up to the first without the continuation bit.
\* Result: [ok, num, off]; ok = FALSE is a throw: of new Uint8Array(buffer,
\* offset) with an offset outside the buffer, or of Unreachable when the
\* input ends before the loop returns (off is then the end of the input).
decodeVarint(buffer, off) ==
    IF off < 0 \/ off > Len(buffer) THEN [ok |-> FALSE, num |-> 0, off |-> off]
    ELSE LET ends == { i \in (off + 1)..Len(buffer) : buffer[i] < 128 }
         IN  IF ends = {} THEN [ok |-> FALSE, num |-> 0, off |-> Len(buffer)]
             ELSE LET last == CHOOSE i \in ends : \A j \in ends : i <= j
                  IN  [ok |-> TRUE,
                       num |-> toInt32(UNION { shiftedBits(buffer[i], 7 * (i - off - 1)) :
                                               i \in (off + 1)..last }),
                       off |-> last]

(***************************** UTF-8 ***************************************)
\* TextEncoder.encode of one code point (a Unicode scalar value)
utf8OfCodePoint(cp) ==
    IF cp < 128 THEN <<cp>>
    ELSE IF cp < 2048 THEN <<192 + cp \div 64, 128 + (cp % 64)>>
    ELSE IF cp < 65536
         THEN <<224 + cp \div 4096, 128 + ((cp \div 64) % 64), 128 + (cp % 64)>>
    ELSE <<240 + cp \div 262144, 128 + ((cp \div 4096) % 64),
           128 + ((cp \div 64) % 64), 128 + (cp % 64)>>

\* new TextEncoder().encode(string)
RECURSIVE TextEncode(_)
TextEncode(string) ==
    IF string = <<>> THEN <<>>
    ELSE utf8OfCodePoint(Head(string)) \o TextEncode(Tail(string))

\* new TextDecoder().decode(bytes), for well-formed UTF-8; a malformed
\* sequence decodes to U+FFFD (65533) and one byte is skipped
RECURSIVE TextDecode(_)
TextDecode(bytes) ==
    IF bytes = <<>> THEN <<>>
    ELSE LET b0 == bytes[1]
             n  == Len(bytes)
             cont(i) == i <= n /\ bytes[i] >= 128 /\ bytes[i] < 192
         IN  IF b0 < 128 THEN <<b0>> \o TextDecode(Tail(bytes))
             ELSE IF b0 >= 194 /\ b0 < 224 /\ cont(2)
                  THEN <<(b0 - 192) * 64 + (bytes[2] - 128)>>
                       \o TextDecode(SubSeq(bytes, 3, n))
             ELSE IF b0 >= 224 /\ b0 < 240 /\ cont(2) /\ cont(3)
                  THEN <<(b0 - 224) * 4096 + (bytes[2] - 128) * 64 + (bytes[3] - 128)>>
                       \o TextDecode(SubSeq(bytes, 4, n))
             ELSE IF b0 >= 240 /\ b0 < 245 /\ cont(2) /\ cont(3) /\ cont(4)
                  THEN <<(b0 - 240) * 262144 + (bytes[2] - 128) * 4096
                         + (bytes[3] - 128) * 64 + (bytes[4] - 128)>>
                       \o TextDecode(SubSeq(bytes, 5, n))
             ELSE <<65533>> \o TextDecode(Tail(bytes))

(***************************** values ***************************************)
Val(t, a, b) == [t |-> t, a |-> a, b |-> b]

VNull == Val("null", <<>>, <<>>)
VUndef == Val("undefined", <<>>, <<>>)
VTrue == Val("true", <<>>, <<>>)
VFalse == Val("false", <<>>, <<>>)
\* an unoccupied slot of an Array (no own property at that index)
VHole == Val("hole", <<>>, <<>>)
\* a number / the getTime() of a Date, as its eight IEEE-754 bytes, big-endian
VNumber(f64) == Val("number", f64, <<>>)
VDate(f64) == Val("date", f64, <<>>)
VRegExp(source, flags) == Val("regexp", source, flags)
VString(s) == Val("string", s, <<>>)
\* a bigint: a = <<1>> when negative else <<0>>; b = the magnitude in base
\* 256, most significant byte first, without leading zeros (<<>> for 0n)
VBigInt(neg, mag) == Val("bigint", <<neg>>, mag)
\* a value with object identity: the object is heap[id]
VRef(id) == Val("ref", <<id>>, <<>>)

IsRef(v) == v.t = "ref"
IdOf(v) == v.a[1]

\* an object of the heap.  cls names its constructor (x.constructor).
Node(k, cls, items, keys, s1, s2, n1, n2, buf) ==
    [k |-> k, cls |-> cls, items |-> items, keys |-> keys, s1 |-> s1, s2 |-> s2,
     n1 |-> n1, n2 |-> n2, buf |-> buf]

\* an Array with the given slots and `extra` own keys that are not indices
ArrayNode(items, extra) == Node("array", "Array", items, <<>>, <<>>, <<>>, extra, 0, 0)
\* a plain object with the given own string keys, in Object.keys order
ObjectNode(keys, vals) == Node("object", "Object", vals, keys, <<>>, <<>>, 0, 0, 0)
SetNode(items) == Node("set", "Set", items, <<>>, <<>>, <<>>, 0, 0, 0)
\* a Map: items = <<key1, value1, key2, value2, ..>>
MapNode(items) == Node("map", "Map", items, <<>>, <<>>, <<>>, 0, 0, 0)
\* an object that is instanceof Error; cause undefined = no cause
ErrorNode(cls, message, stack, cause) ==
    Node("error", cls, <<cause>>, <<>>, message, stack, 0, 0, 0)
ArrayBufferNode(bytes) ==
    Node("arraybuffer", "ArrayBuffer", <<>>, <<>>, bytes, <<>>, 0, 0, 0)
\* an object ArrayBuffer.isView is true of, over the ArrayBuffer heap[buf]:
\* n1 = byteOffset, n2 = length (byteLength for a DataView)
ViewNode(cls, buf, byteOffset, length) ==
    Node("view", cls, <<>>, <<>>, <<>>, <<>>, byteOffset, length, buf)
\* any other object; items = <<r>> where r is what an extension's encode(x)
\* returns for it
ForeignNode(cls, reduced) == Node("foreign", cls, <<reduced>>, <<>>, <<>>, <<>>, 0, 0, 0)
\* new Number(p), new String(p), new Boolean(p): items = <<p>>, the primitive
\* the object wraps
WrapperNode(cls, primitive) ==
    Node("wrapper", cls, <<primitive>>, <<>>, <<>>, <<>>, 0, 0, 0)

(***************************** primitive codecs *****************************)
\* encodeNumber(number)
encodeNumber(number) == <<NUMBER>> \o number.a

\* decodeNumber(self, buffer): [ok, v, off]
decodeNumber(buffer, off) ==
    IF off + 8 > Len(buffer) THEN [ok |-> FALSE, v |-> VUndef, off |-> off]
    ELSE [ok |-> TRUE, v |-> VNumber(SubSeq(buffer, off + 1, off + 8)), off |-> off + 8]

\* encodeDate(date)
encodeDate(date) == <<DATE>> \o date.a

\* decodeDate(self, buffer)
decodeDate(buffer, off) ==
    IF off + 8 > Len(buffer) THEN [ok |-> FALSE, v |-> VUndef, off |-> off]
    ELSE [ok |-> TRUE, v |-> VDate(SubSeq(buffer, off + 1, off + 8)), off |-> off + 8]

\* encodeString(string)
encodeString(string) ==
    LET encodedBuffer == TextEncode(string)
    IN  concatArrayBuffers(<< <<STRING_TAG>>, encodeVarint(Len(encodedBuffer)), encodedBuffer >>)

\* decodeString without "self.offset += textBufferLength"
decodeString_unadvanced(buffer, off) ==
    LET l == decodeVarint(buffer, off)
    IN  IF ~l.ok \/ l.num < 0 \/ l.num > Len(buffer) - l.off
        THEN [ok |-> FALSE, v |-> VUndef, off |-> l.off]
        ELSE [ok |-> TRUE, v |-> VString(TextDecode(Slice(buffer, l.off + 1, l.num))),
              off |-> l.off]

\* decodeString(self, buffer): the varint length, then that many bytes; a
\* length past the end makes new Uint8Array(buffer, offset, length) throw
decodeString(buffer, off) ==
    LET l == decodeVarint(buffer, off)
    IN  IF ~l.ok \/ l.num < 0 \/ l.num > Len(buffer) - l.off
        THEN [ok |-> FALSE, v |-> VUndef, off |-> l.off]
        ELSE [ok |-> TRUE, v |-> VString(TextDecode(Slice(buffer, l.off + 1, l.num))),
              off |-> l.off + l.num]

\* encodeRegex(regex)
encodeRegex(regex) ==
    concatArrayBuffers(<< <<REGEXP>>, encodeString(regex.a), encodeString(regex.b) >>)

\* decodeRegex(self, buffer): each string tag is skipped, not read
decodeRegex(buffer, off) ==
    LET source == decodeString(buffer, off + 1)
        flags == decodeString(buffer, source.off + 1)
    IN  IF ~source.ok \/ ~flags.ok THEN [ok |-> FALSE, v |-> VUndef, off |-> off]
        ELSE [ok |-> TRUE, v |-> VRegExp(source.v.a, flags.v.a), off |-> flags.off]

\* The loops of encodeBigInt and decodeBigInt run up to 255 times; they are
\* given here in closed form on the byte representation of the magnitude.

\* the first loop of encodeBigInt, while (b > 0n) { uint64Count++; b >>= 64n }:
\* the number of 64-bit chunks of the magnitude
countUint64(mag) == (Len(mag) + 7) \div 8

\* the second loop of encodeBigInt: chunk i (from 0) is
\* (bigint >> 64n * i) & 0xffffffffffffffffn, written by setBigUint64 as 8
\* bytes big-endian at offset 2 + 8 * i; byte j (from 1) of that output
writeUint64s(mag) ==
    [j \in 1..(8 * countUint64(mag)) |->
        LET i == (j - 1) \div 8
            k == (j - 1) % 8
            p == Len(mag) - 8 * (i + 1) + 1 + k
        IN  IF p >= 1 THEN mag[p] ELSE 0]

\* encodeBigInt with the chunk count compared to 256, not 255
encodeBigInt_offByOne(bigint) ==
    LET negative == bigint.a[1] = 1
        uint64Count == countUint64(bigint.b)
    IN  IF uint64Count > MaxUint64Count + 1 THEN [ok |-> FALSE, bytes |-> <<>>]
        ELSE [ok |-> TRUE,
              bytes |-> <<IF negative THEN BIGINTN ELSE BIGINTP, uint64Count % 256>>
                        \o writeUint64s(bigint.b)]

\* encodeBigInt(bigint): [ok, bytes]; ok = FALSE is throw BigIntTooLargeError
encodeBigInt(bigint) ==
    LET negative == bigint.a[1] = 1
        uint64Count == countUint64(bigint.b)
    IN  IF uint64Count > MaxUint64Count THEN [ok |-> FALSE, bytes |-> <<>>]
        ELSE [ok |-> TRUE,
              bytes |-> <<IF negative THEN BIGINTN ELSE BIGINTP, uint64Count % 256>>
                        \o writeUint64s(bigint.b)]

\* a big-endian magnitude without its leading zero bytes
Normalize(mag) ==
    IF \A i \in 1..Len(mag) : mag[i] = 0 THEN <<>>
    ELSE LET first == CHOOSE i \in 1..Len(mag) :
                          mag[i] # 0 /\ \A j \in 1..(i - 1) : mag[j] = 0
         IN  SubSeq(mag, first, Len(mag))

\* the loop of decodeBigInt, bigint |= getBigUint64(offset) << shift with
\* shift = 64 * i: chunk i of the input becomes bits 64*i .. 64*i+63, so the
\* most significant bytes of the result are the last chunk read
readUint64s(buffer, off, length) ==
    Normalize([j \in 1..(8 * length) |->
        buffer[off + 8 * (length - 1 - ((j - 1) \div 8)) + ((j - 1) % 8) + 1]])

\* decodeBigInt(self, buffer): the count byte, then the chunks; negative =
\* TRUE is the unary minus decodeImpl applies for BIGINTN
decodeBigInt(buffer, off, negative) ==
    IF off + 1 > Len(buffer) THEN [ok |-> FALSE, v |-> VUndef, off |-> off]
    ELSE LET length == buffer[off + 1]
         IN  IF off + 1 + 8 * length > Len(buffer)
             THEN [ok |-> FALSE, v |-> VUndef, off |-> off + 1]
             ELSE LET mag == readUint64s(buffer, off + 1, length)
                  IN  [ok |-> TRUE,
                       v |-> VBigInt(IF negative /\ mag # <<>> THEN 1 ELSE 0, mag),
                       off |-> off + 1 + 8 * length]

(***************************** strings used by the inputs *******************)
Str_empty == <<>>
Str_a == <<97>>
Str_b == <<98>>
Str_g == <<103>>
\* "hé": a two-byte code point
Str_he == <<104, 233>>
\* U+65E5, three bytes of UTF-8
Str_ri == <<26085>>
\* U+1F600, four bytes of UTF-8
Str_grin == <<128512>>
Str_URL == <<85, 82, 76>>
Str_Magic == <<77, 97, 103, 105, 99>>
Str_MyError == <<77, 121, 69>>
Str_Buffer == <<66, 117, 102>>
Str_URL2 == <<85, 82, 76, 50>>
Str_constructor == <<99, 111, 110, 115, 116, 114, 117, 99, 116, 111, 114>>

(***************************** extensions ***********************************)
\* An Extension {name, when, encode, decode}: when(x) is x.constructor being
\* in `accepts`, encode(x) is the reduced value held by x, decode(r) builds
\* a new object of class cls from r.
\* fails: the callbacks of the extension that throw (when, encode, decode)
Extension(name, accepts, cls) ==
    [name |-> name, accepts |-> accepts, cls |-> cls, fails |-> {}]

ExtURL == Extension(Str_URL, {"URL"}, "URL")
ExtMagic == Extension(Str_Magic, {"Magic"}, "Magic")
ExtMyError == Extension(Str_MyError, {"MyError"}, "MyError")
ExtBuffer == Extension(Str_Buffer, {"Buffer"}, "Buffer")
\* a second extension whose predicate accepts what the URL extension accepts
ExtURL2 == Extension(Str_URL2, {"URL"}, "URL")

\* an extension whose predicate accepts the objects of the built-in classes
ExtGreedy ==
    Extension(Str_g, {"Array", "Object", "Set", "Map", "ArrayBuffer", "Error", "TypeError",
                      "Uint8Array", "DataView"}, "Magic")

\* the extension with callbacks that throw
Raising(ext, callbacks) == [ext EXCEPT !.fails = callbacks]

\* the extension lists codecs are created with; <<>> is the default codec
\* (the exported encode and decode)
Codecs == { <<>>, <<ExtURL>>, <<ExtMagic, ExtURL>>, <<ExtMyError, ExtBuffer>> }

\* the last extension that accepts x, where the loop takes the first
firstAccepting_last(extensions, i, cls) ==
    LET hits == { j \in i..Len(extensions) : cls \in extensions[j].accepts }
    IN  IF hits = {} THEN 0 ELSE CHOOSE j \in hits : \A k \in hits : k <= j

\* the loop "for (const extension of self.extensions) if (extension.when(x))":
\* the index of the first extension that accepts x, 0 when none does
firstAccepting(extensions, i, cls) ==
    LET hits == { j \in i..Len(extensions) : cls \in extensions[j].accepts }
    IN  IF hits = {} THEN 0 ELSE CHOOSE j \in hits : \A k \in hits : j <= k

\* the loop "for (const ext of self.extensions) if (ext.name === name)"
firstNamed(extensions, i, name) ==
    LET hits == { j \in i..Len(extensions) : extensions[j].name = name }
    IN  IF hits = {} THEN 0 ELSE CHOOSE j \in hits : \A k \in hits : j <= k

(***************************** errors and views ******************************)
\* tagOfError(error): 0 stands for throw new NotSerializableError(error)
tagOfError(cls) ==
    IF cls = "Error" THEN ERROR
    ELSE IF cls = "EvalError" THEN EVAL_ERROR
    ELSE IF cls = "RangeError" THEN RANGE_ERROR
    ELSE IF cls = "ReferenceError" THEN REFERENCE_ERROR
    ELSE IF cls = "SyntaxError" THEN SYNTAX_ERROR
    ELSE IF cls = "TypeError" THEN TYPE_ERROR
    ELSE IF cls = "URIError" THEN URI_ERROR
    ELSE 0

\* constructorOfError(tag): "" stands for throw new Unreachable
constructorOfError(tag) ==
    IF tag = ERROR THEN "Error"
    ELSE IF tag = EVAL_ERROR THEN "EvalError"
    ELSE IF tag = RANGE_ERROR THEN "RangeError"
    ELSE IF tag = REFERENCE_ERROR THEN "ReferenceError"
    ELSE IF tag = SYNTAX_ERROR THEN "SyntaxError"
    ELSE IF tag = TYPE_ERROR THEN "TypeError"
    ELSE IF tag = URI_ERROR THEN "URIError"
    ELSE ""

\* tagOfTypedArray(typedArray): 0 stands for throw new NotSerializableError
tagOfTypedArray(cls) ==
    IF cls = "DataView" THEN DATAVIEW
    ELSE IF cls = "Int8Array" THEN INT8ARRAY
    ELSE IF cls = "Uint8Array" THEN UINT8ARRAY
    ELSE IF cls = "Uint8ClampedArray" THEN UINT8CLAMPEDARRAY
    ELSE IF cls = "Int16Array" THEN INT16ARRAY
    ELSE IF cls = "Uint16Array" THEN UINT16ARRAY
    ELSE IF cls = "Int32Array" THEN INT32ARRAY
    ELSE IF cls = "Uint32Array" THEN UINT32ARRAY
    ELSE IF cls = "Float32Array" THEN FLOAT32ARRAY
    ELSE IF cls = "Float64Array" THEN FLOAT64ARRAY
    ELSE IF cls = "BigInt64Array" THEN BIGINT64ARRAY
    ELSE IF cls = "BigUint64Array" THEN BIGUINT64ARRAY
    ELSE 0

\* constructorOfTypedArray(typeTag): "" stands for throw new Unreachable
constructorOfTypedArray(typeTag) ==
    IF typeTag = DATAVIEW THEN "DataView"
    ELSE IF typeTag = INT8ARRAY THEN "Int8Array"
    ELSE IF typeTag = UINT8ARRAY THEN "Uint8Array"
    ELSE IF typeTag = UINT8CLAMPEDARRAY THEN "Uint8ClampedArray"
    ELSE IF typeTag = INT16ARRAY THEN "Int16Array"
    ELSE IF typeTag = UINT16ARRAY THEN "Uint16Array"
    ELSE IF typeTag = INT32ARRAY THEN "Int32Array"
    ELSE IF typeTag = UINT32ARRAY THEN "Uint32Array"
    ELSE IF typeTag = FLOAT32ARRAY THEN "Float32Array"
    ELSE IF typeTag = FLOAT64ARRAY THEN "Float64Array"
    ELSE IF typeTag = BIGINT64ARRAY THEN "BigInt64Array"
    ELSE IF typeTag = BIGUINT64ARRAY THEN "BigUint64Array"
    ELSE ""

ErrorClasses ==
    {"Error", "EvalError", "RangeError", "ReferenceError", "SyntaxError",
     "TypeError", "URIError"}

ViewClasses ==
    {"DataView", "Int8Array", "Uint8Array", "Uint8ClampedArray", "Int16Array",
     "Uint16Array", "Int32Array", "Uint32Array", "Float32Array", "Float64Array",
     "BigInt64Array", "BigUint64Array"}

\* classes of the caller's own: a subclass of Error, and a subclass of
\* Uint8Array (ArrayBuffer.isView is true of its instances)
ErrorSubclasses == {"MyError"}
ViewSubclasses == {"Buffer"}

\* BYTES_PER_ELEMENT of a view class (1 for a DataView); "Buffer" is a
\* subclass of Uint8Array
BytesPerElement(cls) ==
    IF cls \in {"Int16Array", "Uint16Array"} THEN 2
    ELSE IF cls \in {"Int32Array", "Uint32Array", "Float32Array"} THEN 4
    ELSE IF cls \in {"Float64Array", "BigInt64Array", "BigUint64Array"} THEN 8
    ELSE 1

(***************************** input values *********************************)
F64_zero == <<0, 0, 0, 0, 0, 0, 0, 0>>
F64_one == <<63, 240, 0, 0, 0, 0, 0, 0>>
F64_NaN == <<127, 248, 0, 0, 0, 0, 0, 0>>
F64_negzero == <<128, 0, 0, 0, 0, 0, 0, 0>>
F64_neginf == <<255, 240, 0, 0, 0, 0, 0, 0>>
F64_tenth == <<63, 185, 153, 153, 153, 153, 153, 154>>
F64s == {F64_zero, F64_one, F64_NaN, F64_negzero, F64_neginf, F64_tenth}

\* n copies of seq, one after the other
Repeat(seq, n) == [i \in 1..(n * Len(seq)) |-> seq[((i - 1) % Len(seq)) + 1]]

SeqsUpTo(S, n) == UNION { [1..k -> S] : k \in 0..n }

Range(seq) == { seq[i] : i \in 1..Len(seq) }

\* byte lengths of the generated magnitudes: small ones, and the ones around
\* MaxUint64Count chunks of 8 bytes
MagnitudeLengths ==
    {0, 1, 8, 9, 16, 8 * MaxUint64Count - 8, 8 * MaxUint64Count - 7, 8 * MaxUint64Count,
     8 * MaxUint64Count + 1, 8 * MaxUint64Count + 8, 8 * MaxUint64Count + 9}

\* magnitudes of n bytes: 256^(n-1), 256^n - 1, and 0x0102..
Magnitudes ==
    { Repeat(<<255>>, n) : n \in MagnitudeLengths }
    \cup { <<1>> \o Repeat(<<0>>, n - 1) : n \in MagnitudeLengths \ {0} }
    \cup { [i \in 1..n |-> ((i - 1) % 255) + 1] : n \in MagnitudeLengths }

BigIntInputs ==
    { VBigInt(neg, mag) : neg \in {0, 1}, mag \in Magnitudes } \ { VBigInt(1, <<>>) }

ScalarInputs ==
    {VNull, VUndef, VTrue, VFalse}
    \cup { VNumber(f) : f \in F64s }
    \cup { VDate(f) : f \in {F64_zero, F64_one, F64_NaN} }
    \cup { VString(str) : str \in {Str_empty, Str_a, Str_he, Str_ri, Str_grin, Str_he \o Str_ri} }
    \cup { VRegExp(src, flags) : src \in {Str_a, Str_he}, flags \in {Str_empty, Str_g} }
    \cup BigIntInputs

\* the values a generated one-object heap puts in its slots; VRef(1) is the
\* object itself
RichChildren ==
    {VNull, VUndef, VTrue, VFalse, VNumber(F64_one), VNumber(F64_NaN),
     VString(Str_empty), VString(Str_he), VBigInt(1, <<1, 0>>), VDate(F64_one),
     VRegExp(Str_a, Str_g), VRef(1)}

\* the i-th own key of a generated plain object: "a", "hé", "c", ..
KeyName(i) == IF i = 2 THEN Str_he ELSE <<96 + i>>
KeyNames(n) == [i \in 1..n |-> KeyName(i)]

Distinct(seq) == \A i, j \in 1..Len(seq) : i # j => seq[i] # seq[j]

\* a buffer long enough for its length to need a two-byte varint
LongBytes == Repeat(<<7>>, 130)
Bytes16 == <<1, 2, 3, 4, 5, 6, 7, 8, 9, 10, 11, 12, 13, 14, 15, 16>>

\* the dense containers of at most n entries over a set of children
Containers(children, n, withObjects) ==
    { ArrayNode(items, 0) : items \in SeqsUpTo(children, n) }
    \cup (IF withObjects
          THEN { ObjectNode(KeyNames(Len(vals)), vals) : vals \in SeqsUpTo(children, n) }
               \cup { SetNode(items) : items \in { q \in SeqsUpTo(children, n) : Distinct(q) } }
               \cup { MapNode(<<>>) }
               \cup { MapNode(<<k, v>>) : k \in children, v \in children }
          ELSE {})

\* arrays with empty slots and/or own keys that are not indices
MalformedArrays ==
    { ArrayNode(items, extra) :
        items \in SeqsUpTo({VHole, VTrue}, MaxItems), extra \in 0..MaxItems }
    \ { ArrayNode(items, 0) : items \in SeqsUpTo({VTrue}, MaxItems) }

\* the objects of the one-object heaps
RichNodes ==
    Containers(RichChildren, MaxItems, TRUE)
    \cup MalformedArrays
    \cup { ErrorNode(cls, ms[1], ms[2], cause) :
             cls \in ErrorClasses \cup ErrorSubclasses,
             ms \in { <<Str_empty, Str_empty>>, <<Str_he, Str_a>> },
             cause \in RichChildren }
    \cup { ArrayBufferNode(bytes) : bytes \in { <<>>, <<1, 2, 3>>, LongBytes } }
    \cup { ForeignNode("URL", r) : r \in {VString(Str_empty), VString(Str_he)} }
    \cup { ForeignNode("Magic", r) : r \in RichChildren \ {VRef(1)} }
    \cup { ForeignNode("Function", VUndef) }
    \cup { ObjectNode(keys, [n \in 1..Len(keys) |-> v]) :
             keys \in { <<Str_constructor>>, <<Str_a, Str_constructor>> },
             v \in { VString(Str_a), VNumber(F64_one) } }

\* the backing buffers of the generated views: 16 bytes, 8 bytes, none
ViewBuffers == {Bytes16, SubSeq(Bytes16, 9, 16), <<>>}

\* <<byteOffset, length>> of the generated views over a backing buffer
ViewWindows(cls) ==
    { w \in ({0, 2, 8} \X {0, 1, 4}) :
        /\ w[1] % BytesPerElement(cls) = 0
        /\ w[1] + w[2] * BytesPerElement(cls) <= Len(Bytes16) }

\* the objects of the heaps of n >= 2 objects: with 2 objects every container
\* of at most MaxItems entries, with 3 only sequences of at most two elements,
\* errors and extension values, with more the sequences have at most one
LeanNodes(n) ==
    LET refs == { VRef(i) : i \in 1..n }
    IN  Containers(refs \cup {VTrue}, IF n = 2 THEN MaxItems ELSE IF n = 3 THEN 2 ELSE 1,
                   n = 2)
        \cup { ErrorNode("Error", Str_a, Str_b, cause) : cause \in refs \cup {VUndef} }
        \cup { ForeignNode("URL", VString(Str_a)) }
        \cup { ForeignNode("Magic", r) : r \in refs }

\* the objects of h in the order encodeImpl meets them from VRef(1)
RECURSIVE DfsOrder(_, _, _)
DfsOrder(h, stack, order) ==
    IF stack = <<>> THEN order
    ELSE LET v == Head(stack)
         IN  IF ~IsRef(v) \/ IdOf(v) \in Range(order)
             THEN DfsOrder(h, Tail(stack), order)
             ELSE DfsOrder(h, h[IdOf(v)].items \o Tail(stack), Append(order, IdOf(v)))

\* every object is reachable from the root and the objects are numbered in
\* the order they are met (one heap per isomorphism class)
Canonical(h) == DfsOrder(h, <<VRef(1)>>, <<>>) = [i \in 1..Len(h) |-> i]

\* x.constructor of an object: an own property named "constructor" is found
\* before the one inherited from the prototype, and its value (a string, a
\* number, ..) is none of the constructors encodeImpl compares with
constructorOf(node) ==
    IF node.k = "object" /\ Str_constructor \in Range(node.keys)
    THEN "own property"
    ELSE node.cls

HasForeign(h) == \E i \in 1..Len(h) : constructorOf(h[i]) \notin
    {"Array", "Object", "Set", "Map", "ArrayBuffer"} \cup ErrorClasses \cup ViewClasses

(***************************** state ****************************************)
VARIABLES
    heap,      \* the caller's objects: a sequence of nodes, heap[id]
    root,      \* the value passed to encode
    encCodec,  \* the extensions of the codec whose encode is called
    decCodec,  \* the extensions of the codec whose decode is called
    phase,     \* new, start, encoding, encoded, encode_threw, decoding, decoded,
               \* decode_threw
    ctx,       \* self.context of the running call: the context it was passed
    log,       \* history: the extension callbacks the running call has invoked
    hist,      \* history: what each finished top-level call returned or threw
    eStack,    \* the encodeImpl calls still to make, in evaluation order
    eRefs,     \* Encoder.referrables
    eBody,     \* history: eBody[i] = offset in out where the body of eRefs[i] starts
    out,       \* the bytes written so far; after encoding, the returned buffer
    err,       \* the error a call threw: [name, v]
    dOff,      \* Decoder.offset
    dRefs,     \* Decoder.referrables: ids of dHeap, or 0 for a non-object
    dHeap,     \* the objects decode has constructed, in construction order
    dBody,     \* history: dBody[id] = offset of the tag dHeap[id] was decoded from
    dStack,    \* the active calls of decodeArray, decodeObject, .. innermost first
    dRes       \* the value decode returned

vars == <<heap, root, encCodec, decCodec, phase, ctx, log, hist, eStack, eRefs, eBody,
          out, err, dOff, dRefs, dHeap, dBody, dStack, dRes>>

inputVars == <<heap, root, encCodec, decCodec>>
encVars == <<eStack, eRefs, eBody, out>>
decVars == <<dOff, dRefs, dHeap, dBody, dStack, dRes>>

NoError == [name |-> "", v |-> VUndef]

\* the contexts a caller passes to the encode and decode of a codec; the
\* exported encode and decode pass undefined
Contexts(extensions) ==
    IF extensions = <<>> THEN {VUndef} ELSE {VNumber(F64_one), VString(Str_a)}

\* what a finished call was given and what it left: op is encode or decode,
\* arg the value or the buffer, ok = FALSE a throw
Outcome(op, ok, bytes, error, res, hp) ==
    [op |-> op,
     arg |-> IF op = "encode" THEN root ELSE out,
     codec |-> IF op = "encode" THEN encCodec ELSE decCodec,
     ctx |-> ctx,
     ok |-> ok, out |-> bytes, err |-> error, res |-> res, heap |-> hp]

InitCall ==
    /\ phase = "new"
    /\ ctx = VUndef /\ log = <<>> /\ hist = <<>>
    /\ eStack = <<>> /\ eRefs = <<>> /\ eBody = <<>> /\ out = <<>>
    /\ err = NoError
    /\ dOff = 0 /\ dRefs = <<>> /\ dHeap = <<>> /\ dBody = <<>> /\ dStack = <<>>
    /\ dRes = VUndef

\* a scalar, encoded and decoded by the default codec
InitScalar ==
    /\ root \in ScalarInputs
    /\ heap = <<>>
    /\ encCodec = <<>> /\ decCodec = <<>>

\* one object; an object of a class the codec does not know is tried with
\* every codec, and decoded by the same codec or by the default one
InitOne ==
    /\ \E node \in RichNodes : heap = <<node>>
    /\ root = VRef(1)
    /\ encCodec \in (IF HasForeign(heap) THEN Codecs ELSE { <<>> })
    /\ decCodec \in {encCodec, <<>>}

\* a view and its backing buffer
InitView ==
    /\ \E cls \in ViewClasses \cup ViewSubclasses : \E w \in ViewWindows(cls) :
       \E bytes \in ViewBuffers :
          /\ w[1] + w[2] * BytesPerElement(cls) <= Len(bytes)
          /\ heap = <<ViewNode(cls, 2, w[1], w[2]), ArrayBufferNode(bytes)>>
    /\ root = VRef(1)
    /\ encCodec \in (IF HasForeign(heap) THEN Codecs ELSE { <<>> })
    /\ decCodec = encCodec

\* a graph of 2..MaxObjs objects
InitGraph ==
    /\ \E n \in 2..MaxObjs : \E h \in [1..n -> LeanNodes(n)] :
          /\ Canonical(h)
          /\ heap = h
    /\ root = VRef(1)
    /\ encCodec = (IF HasForeign(heap) THEN <<ExtMagic, ExtURL>> ELSE <<>>)
    /\ decCodec \in (IF HasForeign(heap) THEN {encCodec, <<ExtURL>>} ELSE {encCodec})

\* the largest number of extensions createCodec of es-codec.ts accepts
MaxExtensions == 128

\* a list of n extensions of which only the last accepts anything
ManyExtensions(n) ==
    [i \in 1..n |-> Extension(<<i>>, IF i = n THEN {"Last"} ELSE {}, "Last")]

\* a codec created with one extension more than es-codec.ts allows, and one
\* with exactly as many
InitMany ==
    /\ heap = <<ForeignNode("Last", VTrue)>>
    /\ root = VRef(1)
    /\ encCodec \in {ManyExtensions(MaxExtensions), ManyExtensions(MaxExtensions + 1)}
    /\ decCodec = encCodec

\* graphs of extension values: one alone, one in another's reduced value,
\* two side by side in the reduced array of a third, one held twice
ExtHeaps ==
    { <<ForeignNode("URL", VString(Str_a))>>,
      <<ForeignNode("Magic", VRef(2)), ForeignNode("URL", VString(Str_a))>>,
      <<ForeignNode("Magic", VRef(2)), ArrayNode(<<VRef(3), VRef(4)>>, 0),
        ForeignNode("URL", VString(Str_a)), ForeignNode("Magic", VString(Str_b))>>,
      <<ArrayNode(<<VRef(2), VRef(2)>>, 0), ForeignNode("URL", VString(Str_a))>> }

\* codecs in which two extensions accept the same values, and codecs with a
\* callback that throws
ExtCodecs ==
    { <<ExtMagic, ExtURL>>, <<ExtURL, ExtURL2, ExtMagic>>, <<ExtMagic, ExtURL2, ExtURL>> }
    \cup { <<ExtMagic, Raising(ExtURL, {cb})>> : cb \in {"when", "encode", "decode"} }
    \cup { <<Raising(ExtMagic, {"decode"}), ExtURL>> }

InitExt ==
    /\ heap \in ExtHeaps
    /\ root = VRef(1)
    /\ encCodec \in ExtCodecs
    /\ decCodec = encCodec

\* an Array of two views, of the same or of different classes, over one
\* ArrayBuffer
InitShared ==
    /\ \E c1, c2 \in {"Uint8Array", "DataView", "Float64Array"} :
       \E w1, w2 \in {<<0, 1>>, <<8, 1>>} :
          heap = <<ArrayNode(<<VRef(2), VRef(3)>>, 0),
                   ViewNode(c1, 4, w1[1], w1[2]), ViewNode(c2, 4, w2[1], w2[2]),
                   ArrayBufferNode(Bytes16)>>
    /\ root = VRef(1)
    /\ encCodec = <<>> /\ decCodec = <<>>

\* a Number, String or Boolean object made with new
InitWrapper ==
    /\ \E node \in { WrapperNode("Number", VNumber(f)) : f \in {F64_one, F64_NaN} }
                 \cup { WrapperNode("String", VString(str)) : str \in {Str_empty, Str_he} }
                 \cup { WrapperNode("Boolean", b) : b \in {VTrue, VFalse} } :
          heap = <<node>>
    /\ root = VRef(1)
    /\ encCodec = <<>> /\ decCodec = <<>>

Init ==
    /\ InitCall
    /\ \/ InitScalar \/ InitOne \/ InitView \/ InitGraph \/ InitMany \/ InitExt
       \/ InitShared \/ InitWrapper

(***************************** encode ***************************************)
\* one pending call encodeImpl(self, v); key = <<k>> when the call is the
\* value of own key k of a plain object (encodeString(k) is written first)
Item(key, v) == [op |-> "val", key |-> key, v |-> v]
\* the call of concatArrayBuffers of encodeArray when array.map left a hole:
\* the spread passes undefined, and undefined.byteLength throws a TypeError
ConcatItem == [op |-> "concat", key |-> <<>>, v |-> VUndef]

\* Array.prototype.indexOf: 0-based, -1 when absent
RECURSIVE indexOfFrom(_, _, _)
indexOfFrom(seq, x, i) ==
    IF i > Len(seq) THEN -1
    ELSE IF seq[i] = x THEN i - 1
    ELSE indexOfFrom(seq, x, i + 1)

indexOf(seq, x) == indexOfFrom(seq, x, 1)

\* the primitive that view.setFloat64 (ToNumber) and TextEncoder.encode
\* (ToString) make of x: x itself, or what a wrapper object wraps
primitiveOf(x) == IF IsRef(x) THEN heap[IdOf(x)].items[1] ELSE x

\* encodeImpl with the extensions consulted before the built-in arms
encoderOf_extensionsFirst(x) ==
    IF /\ IsRef(x)
       /\ heap[IdOf(x)].items # <<>>
       /\ firstAccepting(encCodec, 1, heap[IdOf(x)].cls) # 0
    THEN "extension"
    ELSE IF x.t \in {"null", "undefined", "true", "false"} THEN "unique"
    ELSE IF x.t = "number" THEN "number"
    ELSE IF x.t = "date" THEN "date"
    ELSE IF x.t = "regexp" THEN "regexp"
    ELSE IF x.t = "bigint" THEN "bigint"
    ELSE IF x.t = "string" THEN "string"
    ELSE LET node == heap[IdOf(x)]
         IN  IF constructorOf(node) = "Number" THEN "number"
             ELSE IF constructorOf(node) = "String" THEN "string"
             ELSE IF constructorOf(node) = "Array" THEN "array"
             ELSE IF constructorOf(node) = "Object" THEN "object"
             ELSE IF constructorOf(node) = "Set" THEN "set"
             ELSE IF constructorOf(node) = "Map" THEN "map"
             ELSE IF node.k = "error" THEN "error"
             ELSE IF constructorOf(node) = "ArrayBuffer" THEN "arraybuffer"
             ELSE IF node.k = "view" THEN "view"
             ELSE IF firstAccepting(encCodec, 1, node.cls) = 0 THEN "reject"
             ELSE IF "when" \in encCodec[firstAccepting(encCodec, 1, node.cls)].fails
             THEN "raise"
             ELSE "extension"

\* the if chain of encodeImpl: the encoder chosen for x
encoderOf(x) ==
    IF x.t \in {"null", "undefined", "true", "false"} THEN "unique"
    ELSE IF x.t = "number" THEN "number"
    ELSE IF x.t = "date" THEN "date"
    ELSE IF x.t = "regexp" THEN "regexp"
    ELSE IF x.t = "bigint" THEN "bigint"
    ELSE IF x.t = "string" THEN "string"
    ELSE LET node == heap[IdOf(x)]
         IN  IF constructorOf(node) = "Number" THEN "number"
             ELSE IF constructorOf(node) = "String" THEN "string"
             ELSE IF constructorOf(node) = "Array" THEN "array"
             ELSE IF constructorOf(node) = "Object" THEN "object"
             ELSE IF constructorOf(node) = "Set" THEN "set"
             ELSE IF constructorOf(node) = "Map" THEN "map"
             ELSE IF node.k = "error" THEN "error"
             ELSE IF constructorOf(node) = "ArrayBuffer" THEN "arraybuffer"
             ELSE IF node.k = "view" THEN "view"
             ELSE IF firstAccepting(encCodec, 1, node.cls) = 0 THEN "reject"
             ELSE IF "when" \in encCodec[firstAccepting(encCodec, 1, node.cls)].fails
             THEN "raise"
             ELSE "extension"

top == Head(eStack)
topNode == heap[IdOf(top.v)]
KeyBytes == IF top.key = <<>> THEN <<>> ELSE encodeString(top.key[1])

\* encodeImpl is about to run the given arm on the next pending value
Encoding(arm) ==
    /\ phase = "encoding"
    /\ eStack # <<>>
    /\ top.op = "val"
    /\ encoderOf(top.v) = arm

\* a callback invoked without the context of the call
Call_noContext(cb, i, v, context) == [cb |-> cb, ext |-> i, v |-> v, ctx |-> VUndef]

\* one invocation of a callback of the extension at index i: when(x),
\* encode(x, context) or decode(reduced, context)
Call(cb, i, v, context) == [cb |-> cb, ext |-> i, v |-> v, ctx |-> context]

\* what the throwing callbacks of the extensions throw
CallbackError == [name |-> "E", v |-> VUndef]

\* the calls extension.when(x) the loop over self.extensions makes for the
\* pending value: none when an earlier arm takes it, else one per extension up
\* to the first that accepts
whenCalls ==
    IF ~IsRef(top.v) \/ encoderOf(top.v) \notin {"extension", "reject", "raise"} THEN <<>>
    ELSE LET first == firstAccepting(encCodec, 1, topNode.cls)
             last == IF first = 0 THEN Len(encCodec) ELSE first
         IN  [i \in 1..last |-> Call("when", i, top.v, VUndef)]

\* maybeEncodeReference found (or did not find) the value in the table
alreadyEncoded == indexOf(eRefs, top.v)

\* the call invokes the extension callbacks `calls`, writes bytes and leaves
\* the calls `children` to make next
EmitLog(bytes, children, calls) ==
    /\ out' = out \o KeyBytes \o bytes
    /\ eStack' = children \o Tail(eStack)
    /\ log' = log \o calls
    /\ UNCHANGED <<phase, err, ctx, hist>>
    /\ UNCHANGED inputVars
    /\ UNCHANGED decVars

Emit(bytes, children) == EmitLog(bytes, children, <<>>)

\* maybeEncodeReference without self.referrables.push(x)
Push_forgets ==
    /\ eRefs' = eRefs
    /\ eBody' = eBody

\* maybeEncodeReference with self.referrables.unshift(x) for push(x)
Push_front ==
    /\ eRefs' = <<top.v>> \o eRefs
    /\ eBody' = <<Len(out) + Len(KeyBytes)>> \o eBody

\* self.referrables.push(x) of maybeEncodeReference
Push ==
    /\ eRefs' = Append(eRefs, top.v)
    /\ eBody' = Append(eBody, Len(out) + Len(KeyBytes))

\* a throw that leaves the bytes written so far to the caller
EncodeThrowLog_keepsBytes(name, v, calls) ==
    /\ phase' = "encode_threw"
    /\ err' = [name |-> name, v |-> v]
    /\ eStack' = <<>>
    /\ log' = log \o calls
    /\ hist' = Append(hist, Outcome("encode", FALSE, out, [name |-> name, v |-> v],
                                    VUndef, <<>>))
    /\ UNCHANGED <<ctx, out>>
    /\ UNCHANGED inputVars
    /\ UNCHANGED decVars

\* a throw inside encode, after the callbacks `calls`: the call returns no
\* buffer
EncodeThrowLog(name, v, calls) ==
    /\ phase' = "encode_threw"
    /\ err' = [name |-> name, v |-> v]
    /\ out' = <<>>
    /\ eStack' = <<>>
    /\ log' = log \o calls
    /\ hist' = Append(hist, Outcome("encode", FALSE, <<>>, [name |-> name, v |-> v],
                                    VUndef, <<>>))
    /\ UNCHANGED ctx
    /\ UNCHANGED inputVars
    /\ UNCHANGED decVars

EncodeThrow(name, v) == EncodeThrowLog(name, v, <<>>)

\* createCodec(extensions) -> createCodecImpl(extensions): the extensions are
\* wrapped one by one and the codec is returned; the list is not measured
CreateCodec ==
    /\ phase = "new"
    /\ phase' = "start"
    /\ UNCHANGED <<ctx, log, hist, err>>
    /\ UNCHANGED inputVars
    /\ UNCHANGED encVars
    /\ UNCHANGED decVars

\* encode with a table that outlives the call
Encode_keepsTable ==
    /\ phase = "start"
    /\ phase' = "encoding"
    /\ \E context \in Contexts(encCodec) : ctx' = context
    /\ log' = <<>>
    /\ eStack' = <<Item(<<>>, root)>>
    /\ out' = <<>>
    /\ UNCHANGED <<eRefs, eBody, err, hist>>
    /\ UNCHANGED inputVars
    /\ UNCHANGED decVars

\* codec.encode(x, context): encodeImpl({referrables: [], ..}, x)
Encode ==
    /\ phase = "start"
    /\ phase' = "encoding"
    /\ \E context \in Contexts(encCodec) : ctx' = context
    /\ log' = <<>>
    /\ eStack' = <<Item(<<>>, root)>>
    /\ eRefs' = <<>> /\ eBody' = <<>> /\ out' = <<>>
    /\ UNCHANGED <<err, hist>>
    /\ UNCHANGED inputVars
    /\ UNCHANGED decVars

EncodeUnique ==
    /\ Encoding("unique")
    /\ Emit(<<CASE top.v.t = "null" -> NULL
                [] top.v.t = "undefined" -> UNDEFINED
                [] top.v.t = "true" -> TRUE_TAG
                [] OTHER -> FALSE_TAG>>, <<>>)
    /\ UNCHANGED <<eRefs, eBody>>

EncodeNumber ==
    /\ Encoding("number")
    /\ Emit(encodeNumber(primitiveOf(top.v)), <<>>)
    /\ UNCHANGED <<eRefs, eBody>>

EncodeDate ==
    /\ Encoding("date")
    /\ Emit(encodeDate(top.v), <<>>)
    /\ UNCHANGED <<eRefs, eBody>>

EncodeRegex ==
    /\ Encoding("regexp")
    /\ Emit(encodeRegex(top.v), <<>>)
    /\ UNCHANGED <<eRefs, eBody>>

EncodeBigInt ==
    /\ Encoding("bigint")
    /\ LET r == encodeBigInt(top.v)
       IN  IF r.ok THEN Emit(r.bytes, <<>>)
           ELSE EncodeThrow("BigIntTooLargeError", top.v)
    /\ UNCHANGED <<eRefs, eBody>>

EncodeString ==
    /\ Encoding("string")
    /\ Emit(encodeString(primitiveOf(top.v).a), <<>>)
    /\ UNCHANGED <<eRefs, eBody>>

\* maybeEncodeReference calling the extension's encode before it looks the
\* object up in the table
EncodeReference_reduces ==
    /\ phase = "encoding"
    /\ eStack # <<>>
    /\ top.op = "val"
    /\ IsRef(top.v)
    /\ encoderOf(top.v) \notin {"reject", "raise"}
    /\ alreadyEncoded # -1
    /\ EmitLog(<<REFERENCE>> \o encodeVarint(alreadyEncoded), <<>>,
               IF encoderOf(top.v) = "extension"
               THEN Append(whenCalls, Call("encode", firstAccepting(encCodec, 1, topNode.cls),
                                           top.v, ctx))
               ELSE whenCalls)
    /\ UNCHANGED <<eRefs, eBody>>

\* maybeEncodeReference when the value is already in the table
EncodeReference ==
    /\ phase = "encoding"
    /\ eStack # <<>>
    /\ top.op = "val"
    /\ IsRef(top.v)
    /\ encoderOf(top.v) \notin {"reject", "raise"}
    /\ alreadyEncoded # -1
    /\ EmitLog(<<REFERENCE>> \o encodeVarint(alreadyEncoded), <<>>, whenCalls)
    /\ UNCHANGED <<eRefs, eBody>>

\* the calls array.map makes: one per occupied slot, in index order
RECURSIVE itemsOf(_)
itemsOf(values) ==
    IF values = <<>> THEN <<>>
    ELSE (IF Head(values) = VHole THEN <<>> ELSE <<Item(<<>>, Head(values))>>)
         \o itemsOf(Tail(values))

\* Object.keys(array).length
ownKeyCount(node) ==
    Cardinality({ i \in 1..Len(node.items) : node.items[i] # VHole }) + node.n1

\* maybeEncodeReference, then encodeArray
EncodeArray ==
    /\ Encoding("array")
    /\ alreadyEncoded = -1
    /\ Push
    /\ IF Len(topNode.items) # ownKeyCount(topNode)
       THEN EncodeThrow("MalformedArrayError", top.v)
       ELSE Emit(<<ARRAY>> \o encodeVarint(Len(topNode.items)),
                 itemsOf(topNode.items)
                 \o (IF VHole \in Range(topNode.items) THEN <<ConcatItem>> ELSE <<>>))

\* concatArrayBuffers reads byteLength of the undefined a hole left
EncodeConcatUndefined ==
    /\ phase = "encoding"
    /\ eStack # <<>>
    /\ top.op = "concat"
    /\ EncodeThrow("TypeError", VUndef)
    /\ UNCHANGED <<eRefs, eBody>>

\* the calls keys.map makes: encodeString(key), then encodeImpl(object[key])
keyedItemsOf(node) == [i \in 1..Len(node.items) |-> Item(<<node.keys[i]>>, node.items[i])]

\* maybeEncodeReference, then encodeObject
EncodeObject ==
    /\ Encoding("object")
    /\ alreadyEncoded = -1
    /\ Push
    /\ Emit(<<OBJECT>> \o encodeVarint(Len(topNode.keys)), keyedItemsOf(topNode))

\* maybeEncodeReference, then encodeSet
EncodeSet ==
    /\ Encoding("set")
    /\ alreadyEncoded = -1
    /\ Push
    /\ Emit(<<SET>> \o encodeVarint(Len(topNode.items)), itemsOf(topNode.items))

\* maybeEncodeReference, then encodeMap (map.size entries: key, value)
EncodeMap ==
    /\ Encoding("map")
    /\ alreadyEncoded = -1
    /\ Push
    /\ Emit(<<MAP>> \o encodeVarint(Len(topNode.items) \div 2), itemsOf(topNode.items))

\* maybeEncodeReference, then encodeError; tagOfError may throw
EncodeError ==
    /\ Encoding("error")
    /\ alreadyEncoded = -1
    /\ Push
    /\ IF tagOfError(topNode.cls) = 0
       THEN EncodeThrow("NotSerializableError", top.v)
       ELSE Emit(<<tagOfError(topNode.cls)>> \o encodeString(topNode.s1)
                 \o encodeString(topNode.s2),
                 <<Item(<<>>, topNode.items[1])>>)

\* maybeEncodeReference, then encodeArrayBuffer
EncodeArrayBuffer ==
    /\ Encoding("arraybuffer")
    /\ alreadyEncoded = -1
    /\ Push
    /\ Emit(<<ARRAYBUFFER>> \o encodeVarint(Len(topNode.s1)) \o topNode.s1, <<>>)

\* encodeTypedArray writing only the bytes of the window, not the whole buffer
EncodeTypedArray_windowOnly ==
    /\ Encoding("view")
    /\ alreadyEncoded = -1
    /\ Push
    /\ IF tagOfTypedArray(topNode.cls) = 0
       THEN EncodeThrow("NotSerializableError", top.v)
       ELSE LET byteLength == topNode.n2 * BytesPerElement(topNode.cls)
            IN  Emit(<<tagOfTypedArray(topNode.cls)>>
                     \o encodeVarint(byteLength)
                     \o encodeVarint(topNode.n1)
                     \o encodeVarint(topNode.n2)
                     \o SubSeq(heap[topNode.buf].s1, topNode.n1 + 1,
                               topNode.n1 + byteLength), <<>>)

\* maybeEncodeReference, then encodeTypedArray; tagOfTypedArray may throw
EncodeTypedArray ==
    /\ Encoding("view")
    /\ alreadyEncoded = -1
    /\ Push
    /\ IF tagOfTypedArray(topNode.cls) = 0
       THEN EncodeThrow("NotSerializableError", top.v)
       ELSE Emit(<<tagOfTypedArray(topNode.cls)>>
                 \o encodeVarint(Len(heap[topNode.buf].s1))
                 \o encodeVarint(topNode.n1)
                 \o encodeVarint(topNode.n2)
                 \o heap[topNode.buf].s1, <<>>)

\* maybeEncodeReference, then the encodeImpl of the first accepting
\* extension: the tag, encodeImpl(ext.name), encodeImpl(ext.encode(x, context))
EncodeExtension ==
    /\ Encoding("extension")
    /\ alreadyEncoded = -1
    /\ Push
    /\ LET i == firstAccepting(encCodec, 1, topNode.cls)
           ext == encCodec[i]
           calls == Append(whenCalls, Call("encode", i, top.v, ctx))
       IN  IF "encode" \in ext.fails
           THEN EncodeThrowLog(CallbackError.name, CallbackError.v, calls)
           ELSE EmitLog(<<EXTENSION>> \o encodeString(ext.name),
                        <<Item(<<>>, topNode.items[1])>>, calls)

\* extension.when(x) throws: the loop is left before maybeEncodeReference
EncodePredicateThrows ==
    /\ Encoding("raise")
    /\ EncodeThrowLog(CallbackError.name, CallbackError.v, whenCalls)
    /\ UNCHANGED <<eRefs, eBody>>

\* no arm and no extension accepts x: throw new NotSerializableError(x)
EncodeNotSerializable ==
    /\ Encoding("reject")
    /\ EncodeThrowLog("NotSerializableError", top.v, whenCalls)
    /\ UNCHANGED <<eRefs, eBody>>

\* the outermost encodeImpl returns the buffer
EncodeReturn ==
    /\ phase = "encoding"
    /\ eStack = <<>>
    /\ phase' = "encoded"
    /\ hist' = Append(hist, Outcome("encode", TRUE, out, NoError, VUndef, <<>>))
    /\ UNCHANGED <<eStack, eRefs, eBody, out, err, ctx, log>>
    /\ UNCHANGED inputVars
    /\ UNCHANGED decVars

EncodeStep ==
    \/ EncodeUnique \/ EncodeNumber \/ EncodeDate \/ EncodeRegex
    \/ EncodeBigInt \/ EncodeString \/ EncodeReference
    \/ EncodeArray \/ EncodeConcatUndefined \/ EncodeObject \/ EncodeSet \/ EncodeMap
    \/ EncodeError \/ EncodeArrayBuffer \/ EncodeTypedArray
    \/ EncodeExtension \/ EncodePredicateThrows \/ EncodeNotSerializable

(***************************** decode ***************************************)
\* an active call of decodeArray, decodeObject, decodeSet, decodeMap,
\* decodeError or of an extension's decodeImpl: f names it, id is the shell it
\* fills (0 when the object is built at the end), left the decodeImpl calls
\* of its loop still to make, key the value it holds meanwhile (the key of an
\* object or map entry; the cause of an error; the reduced value), tag the
\* type tag of an error or the index of the extension, s1 and s2 the message
\* and stack of an error, at the offset of its tag
Frame(f, id, left, tag, s1, s2, at) ==
    [f |-> f, id |-> id, left |-> left, key |-> <<>>, tag |-> tag, s1 |-> s1,
     s2 |-> s2, at |-> at]

\* decodeImpl with the buffer family bit tested before the exact ARRAYBUFFER tag
decoderOf_familyFirst(typeTag) ==
    IF typeTag = NULL THEN "null"
    ELSE IF typeTag = UNDEFINED THEN "undefined"
    ELSE IF typeTag = TRUE_TAG THEN "true"
    ELSE IF typeTag = FALSE_TAG THEN "false"
    ELSE IF typeTag = REFERENCE THEN "reference"
    ELSE IF typeTag = NUMBER THEN "number"
    ELSE IF typeTag = DATE THEN "date"
    ELSE IF typeTag = REGEXP THEN "regexp"
    ELSE IF typeTag = BIGINTP THEN "bigintp"
    ELSE IF typeTag = BIGINTN THEN "bigintn"
    ELSE IF typeTag = STRING_TAG THEN "string"
    ELSE IF typeTag = ARRAY THEN "array"
    ELSE IF typeTag = OBJECT THEN "object"
    ELSE IF typeTag = SET THEN "set"
    ELSE IF typeTag = MAP THEN "map"
    ELSE IF BitAnd(typeTag, ERROR) # 0 THEN "error"
    ELSE IF BitAnd(typeTag, ARRAYBUFFER) # 0 THEN "view"
    ELSE IF typeTag = ARRAYBUFFER THEN "arraybuffer"
    ELSE IF BitAnd(typeTag, EXTENSION) # 0 THEN "extension"
    ELSE "unreachable"

\* the if chain of decodeImpl: the decoder chosen for typeTag
decoderOf(typeTag) ==
    IF typeTag = NULL THEN "null"
    ELSE IF typeTag = UNDEFINED THEN "undefined"
    ELSE IF typeTag = TRUE_TAG THEN "true"
    ELSE IF typeTag = FALSE_TAG THEN "false"
    ELSE IF typeTag = REFERENCE THEN "reference"
    ELSE IF typeTag = NUMBER THEN "number"
    ELSE IF typeTag = DATE THEN "date"
    ELSE IF typeTag = REGEXP THEN "regexp"
    ELSE IF typeTag = BIGINTP THEN "bigintp"
    ELSE IF typeTag = BIGINTN THEN "bigintn"
    ELSE IF typeTag = STRING_TAG THEN "string"
    ELSE IF typeTag = ARRAY THEN "array"
    ELSE IF typeTag = OBJECT THEN "object"
    ELSE IF typeTag = SET THEN "set"
    ELSE IF typeTag = MAP THEN "map"
    ELSE IF BitAnd(typeTag, ERROR) # 0 THEN "error"
    ELSE IF typeTag = ARRAYBUFFER THEN "arraybuffer"
    ELSE IF BitAnd(typeTag, ARRAYBUFFER) # 0 THEN "view"
    ELSE IF BitAnd(typeTag, EXTENSION) # 0 THEN "extension"
    ELSE "unreachable"

\* SameValueZero, the equality of Set.add and Map.set; a decoded Date or
\* RegExp is a new object, equal to no other
SameValueZero(v, w) ==
    IF v.t \in {"date", "regexp"} THEN FALSE
    ELSE IF v.t = "number" /\ w.t = "number"
         THEN v.a = w.a \/ ({v.a, w.a} \subseteq {F64_zero, F64_negzero})
    ELSE v = w

\* Set.add and Map.set store -0 as +0
storedKey(v) == IF v = VNumber(F64_negzero) THEN VNumber(F64_zero) ELSE v

\* result[key] = v on a plain object
setProperty(node, key, v) ==
    IF \E i \in 1..Len(node.keys) : node.keys[i] = key
    THEN LET i == CHOOSE i \in 1..Len(node.keys) : node.keys[i] = key
         IN  [node EXCEPT !.items[i] = v]
    ELSE [node EXCEPT !.keys = Append(@, key), !.items = Append(@, v)]

\* result.add(v)
setAdd(node, v) ==
    IF \E i \in 1..Len(node.items) : SameValueZero(node.items[i], v) THEN node
    ELSE [node EXCEPT !.items = Append(@, storedKey(v))]

\* result.set(key, v)
mapSet(node, key, v) ==
    IF \E i \in 1..(Len(node.items) \div 2) : SameValueZero(node.items[2 * i - 1], key)
    THEN LET i == CHOOSE i \in 1..(Len(node.items) \div 2) :
                      SameValueZero(node.items[2 * i - 1], key)
         IN  [node EXCEPT !.items[2 * i] = v]
    ELSE [node EXCEPT !.items = @ \o <<storedKey(key), v>>]

\* a decodeImpl call returns v to the call that made it: the innermost frame
\* of stack uses it (result.push(v), result[key] = v, ..).  [stack, heap]
deliver(stack, hp, v) ==
    LET f == Head(stack)
        rest == Tail(stack)
    IN  IF f.f = "array"
        THEN [stack |-> <<[f EXCEPT !.left = @ - 1]>> \o rest,
              heap |-> [hp EXCEPT ![f.id].items = Append(@, v)]]
        ELSE IF f.f = "object"
        THEN [stack |-> <<[f EXCEPT !.left = @ - 1, !.key = <<>>]>> \o rest,
              heap |-> [hp EXCEPT ![f.id] = setProperty(@, f.key[1].a, v)]]
        ELSE IF f.f = "set"
        THEN [stack |-> <<[f EXCEPT !.left = @ - 1]>> \o rest,
              heap |-> [hp EXCEPT ![f.id] = setAdd(@, v)]]
        ELSE IF f.f = "map" /\ f.key = <<>>
        THEN [stack |-> <<[f EXCEPT !.key = <<v>>]>> \o rest, heap |-> hp]
        ELSE IF f.f = "map"
        THEN [stack |-> <<[f EXCEPT !.left = @ - 1, !.key = <<>>]>> \o rest,
              heap |-> [hp EXCEPT ![f.id] = mapSet(@, f.key[1], v)]]
        ELSE [stack |-> <<[f EXCEPT !.left = 0, !.key = <<v>>]>> \o rest, heap |-> hp]

\* decodeObject reads the key of the next entry before it calls decodeImpl:
\* one byte is skipped (the string tag), then decodeString
inObject == dStack # <<>> /\ Head(dStack).f = "object"
keyRead == decodeString(out, dOff + 1)
\* the offset of the type tag the next decodeImpl call reads
tagOff == IF inObject THEN keyRead.off ELSE dOff
typeTag == out[tagOff + 1]
\* the frames, the innermost holding the key just read
callers ==
    IF inObject THEN <<[Head(dStack) EXCEPT !.key = <<keyRead.v>>]>> \o Tail(dStack)
    ELSE dStack

\* decodeImpl is called (by decode or by the loop of the innermost frame),
\* reads a tag and chooses the given arm
Decoding(arm) ==
    /\ phase = "decoding"
    /\ IF dStack = <<>> THEN TRUE ELSE Head(dStack).left > 0
    /\ inObject => keyRead.ok
    /\ tagOff >= 0 /\ tagOff < Len(out)
    /\ decoderOf(typeTag) = arm

\* the call returns v with the cursor at off; hp and refs are the heap and the
\* table after the call, body the offsets of the tags the objects of hp were
\* decoded from (-1 for the buffer made for a view)
ReturnLog(stack, v, off, hp, refs, body, calls) ==
    /\ dOff' = off
    /\ dRefs' = refs
    /\ dBody' = body
    /\ log' = log \o calls
    /\ IF stack = <<>>
       THEN /\ phase' = "decoded"
            /\ dRes' = v
            /\ dStack' = <<>>
            /\ dHeap' = hp
            /\ hist' = Append(hist, Outcome("decode", TRUE, <<>>, NoError, v, hp))
       ELSE /\ dStack' = deliver(stack, hp, v).stack
            /\ dHeap' = deliver(stack, hp, v).heap
            /\ UNCHANGED <<phase, dRes, hist>>
    /\ UNCHANGED <<err, ctx>>
    /\ UNCHANGED inputVars
    /\ UNCHANGED encVars

Return(stack, v, off, hp, refs, body) == ReturnLog(stack, v, off, hp, refs, body, <<>>)

\* the call enters a decoder that calls decodeImpl itself
Enter(frame, off, hp, refs, body) ==
    /\ dOff' = off
    /\ dRefs' = refs
    /\ dBody' = body
    /\ dHeap' = hp
    /\ dStack' = <<frame>> \o callers
    /\ UNCHANGED <<phase, dRes, err, ctx, log, hist>>
    /\ UNCHANGED inputVars
    /\ UNCHANGED encVars

\* a throw inside decode, after the callbacks `calls`: the call returns no
\* value
DecodeThrowLog(name, v, calls) ==
    /\ phase' = "decode_threw"
    /\ err' = [name |-> name, v |-> v]
    /\ dStack' = <<>>
    /\ log' = log \o calls
    /\ hist' = Append(hist, Outcome("decode", FALSE, <<>>, [name |-> name, v |-> v],
                                    VUndef, <<>>))
    /\ UNCHANGED ctx
    /\ UNCHANGED <<dOff, dRefs, dHeap, dBody, dRes>>
    /\ UNCHANGED inputVars
    /\ UNCHANGED encVars

DecodeThrow(name, v) == DecodeThrowLog(name, v, <<>>)

\* codec.decode(buffer, context): decodeImpl({offset: 0, referrables: [], ..})
DecodeCall ==
    /\ phase' = "decoding"
    /\ \E context \in Contexts(decCodec) : ctx' = context
    /\ log' = <<>>
    /\ dOff' = 0 /\ dRefs' = <<>> /\ dHeap' = <<>> /\ dBody' = <<>> /\ dStack' = <<>>
    /\ UNCHANGED <<dRes, err, hist>>
    /\ UNCHANGED inputVars
    /\ UNCHANGED encVars

Decode == phase = "encoded" /\ DecodeCall

DecodeUnique ==
    /\ \/ Decoding("null") \/ Decoding("undefined") \/ Decoding("true") \/ Decoding("false")
    /\ Return(callers,
              CASE typeTag = NULL -> VNull
                [] typeTag = UNDEFINED -> VUndef
                [] typeTag = TRUE_TAG -> VTrue
                [] OTHER -> VFalse,
              tagOff + 1, dHeap, dRefs, dBody)

\* decodeReference: self.referrables[reference], undefined past the end
DecodeReference ==
    /\ Decoding("reference")
    /\ LET r == decodeVarint(out, tagOff + 1)
       IN  /\ r.ok
           /\ Return(callers,
                     IF r.num >= 0 /\ r.num < Len(dRefs) THEN VRef(dRefs[r.num + 1])
                     ELSE VUndef,
                     r.off, dHeap, dRefs, dBody)

DecodeNumber ==
    /\ Decoding("number")
    /\ LET r == decodeNumber(out, tagOff + 1)
       IN  r.ok /\ Return(callers, r.v, r.off, dHeap, dRefs, dBody)

DecodeDate ==
    /\ Decoding("date")
    /\ LET r == decodeDate(out, tagOff + 1)
       IN  r.ok /\ Return(callers, r.v, r.off, dHeap, dRefs, dBody)

\* new RegExp(source, flags) accepts the flags: letters of "dgimsuvy", none
\* twice, not both u and v
validFlags(flags) ==
    /\ \A i \in 1..Len(flags) : flags[i] \in {100, 103, 105, 109, 115, 117, 118, 121}
    /\ \A i, j \in 1..Len(flags) : flags[i] = flags[j] => i = j
    /\ ~({117, 118} \subseteq Range(flags))

\* the patterns known to be accepted by new RegExp
knownSources == {Str_a, Str_he}

DecodeRegex ==
    /\ Decoding("regexp")
    /\ LET r == decodeRegex(out, tagOff + 1)
       IN  /\ r.ok
           /\ validFlags(r.v.b)
           /\ Return(callers, r.v, r.off, dHeap, dRefs, dBody)

DecodeBigInt ==
    /\ Decoding("bigintp") \/ Decoding("bigintn")
    /\ LET r == decodeBigInt(out, tagOff + 1, typeTag = BIGINTN)
       IN  r.ok /\ Return(callers, r.v, r.off, dHeap, dRefs, dBody)

DecodeString ==
    /\ Decoding("string")
    /\ LET r == decodeString(out, tagOff + 1)
       IN  r.ok /\ Return(callers, r.v, r.off, dHeap, dRefs, dBody)

\* a decoder that makes an empty container, pushes it on the table, reads the
\* number of entries and then fills it
EnterContainer(f, shell) ==
    LET r == decodeVarint(out, tagOff + 1)
        id == Len(dHeap) + 1
    IN  /\ r.ok
        /\ Enter(Frame(f, id, IF r.num < 0 THEN 0 ELSE r.num, 0, <<>>, <<>>, tagOff), r.off,
                 Append(dHeap, shell), Append(dRefs, id), Append(dBody, tagOff))

DecodeArray == Decoding("array") /\ EnterContainer("array", ArrayNode(<<>>, 0))
DecodeObject == Decoding("object") /\ EnterContainer("object", ObjectNode(<<>>, <<>>))
DecodeSet == Decoding("set") /\ EnterContainer("set", SetNode(<<>>))
DecodeMap == Decoding("map") /\ EnterContainer("map", MapNode(<<>>))

\* the loop of decodeArray, decodeObject, decodeSet or decodeMap is over:
\* return result
DecodeContainerReturn ==
    /\ phase = "decoding"
    /\ dStack # <<>>
    /\ Head(dStack).f \in {"array", "object", "set", "map"}
    /\ Head(dStack).left = 0
    /\ Return(Tail(dStack), VRef(Head(dStack).id), dOff, dHeap, dRefs, dBody)

\* decodeError up to its call of decodeImpl for the cause: the message and
\* the stack, each after one skipped byte
DecodeError ==
    /\ Decoding("error")
    /\ LET message == decodeString(out, tagOff + 2)
           stack == decodeString(out, message.off + 1)
       IN  /\ message.ok /\ stack.ok
           /\ Enter(Frame("error", 0, 1, typeTag, message.v.a, stack.v.a, tagOff),
                    stack.off, dHeap, dRefs, dBody)

\* decodeError after the cause is decoded: new (constructorOfError(typeTag))
\* (message, {cause}), self.referrables.push(error), error.stack = stack
DecodeErrorReturn ==
    /\ phase = "decoding"
    /\ dStack # <<>>
    /\ Head(dStack).f = "error"
    /\ Head(dStack).left = 0
    /\ constructorOfError(Head(dStack).tag) # ""
    /\ LET f == Head(dStack)
           id == Len(dHeap) + 1
           error == ErrorNode(constructorOfError(f.tag), f.s1, f.s2, f.key[1])
       IN  Return(Tail(dStack), VRef(id), dOff,
                  Append(dHeap, error), Append(dRefs, id), Append(dBody, f.at))

\* decodeArrayBuffer: buffer.slice, self.referrables.push(decodedBuffer)
DecodeArrayBuffer ==
    /\ Decoding("arraybuffer")
    /\ LET r == decodeVarint(out, tagOff + 1)
           id == Len(dHeap) + 1
       IN  /\ r.ok
           /\ Return(callers, VRef(id), advance(r.off, r.num),
                     Append(dHeap, ArrayBufferNode(arraySlice(out, r.off,
                                                              advance(r.off, r.num)))),
                     Append(dRefs, id), Append(dBody, tagOff))

\* new TypedArray(sourceBuffer, byteOffset, viewLength) accepts the window
validWindow(cls, bufferLength, byteOffset, viewLength) ==
    /\ byteOffset >= 0 /\ viewLength >= 0
    /\ byteOffset % BytesPerElement(cls) = 0
    /\ byteOffset <= bufferLength
    /\ viewLength <= (bufferLength - byteOffset) \div BytesPerElement(cls)

\* decodeTypedArray: three varints, buffer.slice, the view over the new
\* buffer, self.referrables.push(decodedView)
DecodeTypedArray ==
    /\ Decoding("view")
    /\ LET bufferLength == decodeVarint(out, tagOff + 1)
           byteOffset == decodeVarint(out, bufferLength.off)
           viewLength == decodeVarint(out, byteOffset.off)
           sourceBuffer == arraySlice(out, viewLength.off,
                                      advance(viewLength.off, bufferLength.num))
           cls == constructorOfTypedArray(typeTag)
           id == Len(dHeap) + 1
       IN  /\ bufferLength.ok /\ byteOffset.ok /\ viewLength.ok
           /\ cls # ""
           /\ validWindow(cls, Len(sourceBuffer), byteOffset.num, viewLength.num)
           /\ Return(callers, VRef(id + 1), advance(viewLength.off, bufferLength.num),
                     dHeap \o <<ArrayBufferNode(sourceBuffer),
                                ViewNode(cls, id, byteOffset.num, viewLength.num)>>,
                     Append(dRefs, id + 1), dBody \o <<-1, tagOff>>)

\* the extension arm of decodeImpl: the name is decoded by decodeImpl (encode
\* writes it as a string), then the first extension of that name is looked up
nameIsString == tagOff + 2 <= Len(out) /\ out[tagOff + 2] = STRING_TAG
extName == decodeString(out, tagOff + 2)
extIndex == firstNamed(decCodec, 1, extName.v.a)

\* .. and its decodeImpl is entered, which first calls decodeImpl for the
\* reduced value
DecodeExtension ==
    /\ Decoding("extension")
    /\ nameIsString
    /\ extName.ok
    /\ extIndex # 0
    /\ Enter(Frame("ext", 0, 1, extIndex, <<>>, <<>>, tagOff), extName.off,
             dHeap, dRefs, dBody)

\* the extension arm ending, as in es-codec.ts, with throw new Unreachable
DecodeIncompatible_Unreachable ==
    /\ Decoding("extension")
    /\ nameIsString
    /\ extName.ok
    /\ extIndex = 0
    /\ DecodeThrow("Unreachable", VUndef)

\* .. or no extension has that name: throw new IncompatibleCodec(name)
DecodeIncompatible ==
    /\ Decoding("extension")
    /\ nameIsString
    /\ extName.ok
    /\ extIndex = 0
    /\ DecodeThrow("IncompatibleCodecError", extName.v)

\* the extension's decodeImpl after the reduced value is decoded:
\* result = ext.decode(reduced, context), self.referrables.push(result)
DecodeExtensionReturn ==
    /\ phase = "decoding"
    /\ dStack # <<>>
    /\ Head(dStack).f = "ext"
    /\ Head(dStack).left = 0
    /\ LET f == Head(dStack)
           id == Len(dHeap) + 1
           result == ForeignNode(decCodec[f.tag].cls, f.key[1])
           calls == <<Call("decode", f.tag, f.key[1], ctx)>>
       IN  IF "decode" \in decCodec[f.tag].fails
           THEN DecodeThrowLog(CallbackError.name, CallbackError.v, calls)
           ELSE ReturnLog(Tail(dStack), VRef(id), dOff,
                          Append(dHeap, result), Append(dRefs, id), Append(dBody, f.at),
                          calls)

\* a decodeImpl call is about to read a tag
ReadPending ==
    /\ phase = "decoding"
    /\ IF dStack = <<>> THEN TRUE ELSE Head(dStack).left > 0

\* the error decodeVarint throws at off, "" when it returns a number: new
\* Uint8Array(buffer, offset) throws past the end, and the loop that ends
\* without a last byte falls to throw new Unreachable
varintError(buffer, off) ==
    IF decodeVarint(buffer, off).ok THEN ""
    ELSE IF off < 0 \/ off > Len(buffer) THEN "RangeError"
    ELSE "Unreachable"

\* the error decodeString throws at off, "" when it returns a string
stringError(buffer, off) ==
    IF varintError(buffer, off) # "" THEN varintError(buffer, off)
    ELSE IF ~decodeString(buffer, off).ok THEN "RangeError"
    ELSE ""

\* the first error of a sequence of reads
firstError(errors) ==
    IF \A i \in 1..Len(errors) : errors[i] = "" THEN ""
    ELSE errors[CHOOSE i \in 1..Len(errors) :
                    errors[i] # "" /\ \A j \in 1..(i - 1) : errors[j] = ""]

\* the error the next decodeImpl call throws while it reads the key, the tag
\* and what the chosen decoder reads before it calls decodeImpl again; ""
\* when it throws none
readError ==
    IF inObject /\ stringError(out, dOff + 1) # "" THEN stringError(out, dOff + 1)
    ELSE IF tagOff < 0 \/ tagOff >= Len(out) THEN "RangeError"
    ELSE LET arm == decoderOf(typeTag)
             p == tagOff + 1
         IN  IF arm \in {"reference", "array", "object", "set", "map", "arraybuffer"}
             THEN varintError(out, p)
             ELSE IF arm \in {"number", "date"}
             THEN IF p + 8 > Len(out) THEN "RangeError" ELSE ""
             ELSE IF arm \in {"bigintp", "bigintn"}
             THEN IF decodeBigInt(out, p, FALSE).ok THEN "" ELSE "RangeError"
             ELSE IF arm = "string" THEN stringError(out, p)
             ELSE IF arm \in {"regexp", "error"}
             THEN firstError(<<stringError(out, p + 1),
                               stringError(out, decodeString(out, p + 1).off + 1)>>)
             ELSE IF arm = "view"
             THEN LET bufferLength == decodeVarint(out, p)
                      byteOffset == decodeVarint(out, bufferLength.off)
                      viewLength == decodeVarint(out, byteOffset.off)
                      sourceBuffer == arraySlice(out, viewLength.off,
                                      advance(viewLength.off, bufferLength.num))
                      cls == constructorOfTypedArray(typeTag)
                  IN  IF ~(bufferLength.ok /\ byteOffset.ok /\ viewLength.ok)
                      THEN firstError(<<varintError(out, p),
                                        varintError(out, bufferLength.off),
                                        varintError(out, byteOffset.off)>>)
                      ELSE IF cls = "" THEN "Unreachable"
                      ELSE IF ~validWindow(cls, Len(sourceBuffer), byteOffset.num,
                                           viewLength.num)
                      THEN "RangeError"
                      ELSE ""
             ELSE IF arm = "extension"
             THEN IF nameIsString THEN stringError(out, p + 1) ELSE ""
             ELSE IF arm = "unreachable" THEN "Unreachable"
             ELSE ""

\* decodeImpl, or the decoder it chose, throws while it reads
DecodeFails ==
    /\ ReadPending
    /\ readError # ""
    /\ DecodeThrow(readError, VUndef)

\* new RegExp(source, flags) throws: the flags are not flags, or the pattern
\* is one that is not known to be accepted
DecodeRegexThrows ==
    /\ Decoding("regexp")
    /\ LET r == decodeRegex(out, tagOff + 1)
       IN  /\ r.ok
           /\ ~validFlags(r.v.b) \/ r.v.a \notin knownSources
           /\ DecodeThrow("SyntaxError", VUndef)

\* decodeError after the cause is decoded, with a tag that has the error bit
\* and is no error tag: constructorOfError ends with throw new Unreachable
DecodeErrorUnreachable ==
    /\ phase = "decoding"
    /\ dStack # <<>>
    /\ Head(dStack).f = "error"
    /\ Head(dStack).left = 0
    /\ constructorOfError(Head(dStack).tag) = ""
    /\ DecodeThrow("Unreachable", VUndef)

\* the extension arm of decodeImpl when what follows the tag is no string:
\* the name is whatever decodeImpl returns ..
DecodeExtensionName ==
    /\ Decoding("extension")
    /\ ~nameIsString
    /\ Enter(Frame("extname", 0, 1, 0, <<>>, <<>>, tagOff), tagOff + 1, dHeap, dRefs, dBody)

\* .. and no ext.name, a string, is identical to it
DecodeExtensionNameReturn ==
    /\ phase = "decoding"
    /\ dStack # <<>>
    /\ Head(dStack).f = "extname"
    /\ Head(dStack).left = 0
    /\ DecodeThrow("IncompatibleCodecError", Head(dStack).key[1])

DecodeStep ==
    \/ DecodeUnique \/ DecodeReference \/ DecodeNumber \/ DecodeDate \/ DecodeRegex
    \/ DecodeBigInt \/ DecodeString
    \/ DecodeArray \/ DecodeObject \/ DecodeSet \/ DecodeMap \/ DecodeContainerReturn
    \/ DecodeError \/ DecodeErrorReturn \/ DecodeArrayBuffer \/ DecodeTypedArray
    \/ DecodeExtension \/ DecodeIncompatible \/ DecodeExtensionReturn

Next == CreateCodec \/ Encode \/ EncodeStep \/ EncodeReturn \/ Decode \/ DecodeStep

Spec == Init /\ [][Next]_vars

(**************************** call after call ********************************)
\* the number of top-level calls followed
MaxCalls == 3

Finished == {"encoded", "encode_threw", "decoded", "decode_threw"}

\* after a call has returned or thrown the caller turns to the next one: it
\* encodes a value with the codec at hand or with another one, the default
\* one included, or decodes once more the buffer the last encode returned
CallAgain ==
    /\ phase \in Finished
    /\ Len(hist) < MaxCalls
    /\ \/ /\ phase' = "start"
          /\ \E v \in {root} \cup { VRef(i) : i \in 1..Len(heap) } : root' = v
          /\ \E extensions \in {encCodec, <<>>, <<ExtGreedy>>} :
                encCodec' = extensions /\ decCodec' = extensions
       \/ /\ phase \in {"decoded", "decode_threw"}
          /\ phase' = "encoded"
          /\ UNCHANGED <<root, encCodec, decCodec>>
    /\ UNCHANGED <<heap, ctx, log, hist, err>>
    /\ UNCHANGED encVars
    /\ UNCHANGED decVars

\* the values and codecs of the calls that follow one another: every scalar,
\* every extension graph, one-element views of every class over 16 bytes and
\* the single objects with at most one child
InitCalls ==
    /\ InitCall
    /\ \/ InitScalar
       \/ InitExt
       \/ InitView /\ heap[1].n2 = 1 /\ Len(heap[2].s1) = Len(Bytes16)
       \/ InitOne /\ Len(heap[1].items) <= 1

NextCalls ==
    CreateCodec \/ Encode \/ EncodeStep \/ EncodeReturn \/ Decode \/ DecodeStep \/ CallAgain

SpecCalls == InitCalls /\ [][NextCalls]_vars

(**************************** damaged buffers ******************************)
\* the tags of the type tag table that decodeImpl and the constructorOf
\* functions know: 01..0F, 20..26, 40..4C and 80
AssignedTags == (NULL..MAP) \cup (ERROR..URI_ERROR) \cup (ARRAYBUFFER..BIGUINT64ARRAY)
                \cup {EXTENSION}

\* bytes that are no tag, some of each range between and after the tags
OtherTags == {0, 16, 17, 31, 39, 63, 77, 95, 96, 127, 129, 159, 160, 193, 255}

\* the buffer decode is given is not the one encode returned: it is cut
\* short, or the tag of the value or of one of its objects is another byte,
\* or its last byte is
Damage ==
    /\ phase = "encoded"
    /\ phase' = "damaged"
    /\ \/ \E k \in {0, 1, 2, 3, Len(out) - 2, Len(out) - 1} :
             /\ k >= 0 /\ k < Len(out)
             /\ out' = SubSeq(out, 1, k)
       \/ \E p \in {0} \cup Range(eBody) : \E t \in OtherTags :
             /\ p >= 0 /\ p < Len(out)
             /\ out' = [out EXCEPT ![p + 1] = t]
       \/ \E b \in {104, 255} :
             /\ out # <<>>
             /\ out' = [out EXCEPT ![Len(out)] = b]
    /\ UNCHANGED <<eStack, eRefs, eBody, err, ctx, log, hist>>
    /\ UNCHANGED inputVars
    /\ UNCHANGED decVars

\* codec.decode(buffer, context) of such a buffer
DecodeDamaged == phase = "damaged" /\ DecodeCall

\* the values whose buffers are damaged: the scalars, single objects, views
\* and extension graphs, the bigints of more than two chunks left out
InitDecode ==
    /\ InitCall
    /\ InitScalar \/ InitOne \/ InitView \/ InitExt
    /\ root.t = "bigint" => Len(root.b) <= 16

NextDecode ==
    \/ CreateCodec \/ Encode \/ EncodeStep \/ EncodeReturn
    \/ Decode \/ Damage \/ DecodeDamaged
    \/ DecodeStep \/ DecodeFails \/ DecodeRegexThrows \/ DecodeErrorUnreachable
    \/ DecodeExtensionName \/ DecodeExtensionNameReturn

SpecDecode == InitDecode /\ [][NextDecode]_vars

(***************************** the two graphs *******************************)
Min(a, b) == IF a < b THEN a ELSE b

isContainer(node) == node.k \in {"array", "object", "set", "map"}

\* the values at the positions of an object: elements, property values, map
\* keys and values, the cause of an error, the reduced value of an extension
\* value
positionsOf(node) == node.items

\* the same position of the input and of the result: the two roots, and with
\* two objects of one kind their i-th positions
RECURSIVE Pairs(_)
Pairs(S) ==
    LET more == UNION { { <<positionsOf(heap[IdOf(p[1])])[i], positionsOf(dHeap[IdOf(p[2])])[i]>> :
                            i \in 1..Min(Len(positionsOf(heap[IdOf(p[1])])),
                                         Len(positionsOf(dHeap[IdOf(p[2])]))) } :
                        p \in { q \in S : /\ IsRef(q[1]) /\ IsRef(q[2])
                                          /\ heap[IdOf(q[1])].k = dHeap[IdOf(q[2])].k } }
    IN  IF more \subseteq S THEN S ELSE Pairs(S \cup more)

Corresponding == Pairs({<<root, dRes>>})

\* the bytes a view or a buffer shows
bytesOf(hp, node) ==
    IF node.k = "view" THEN hp[node.buf].s1 ELSE node.s1

\* w is of the variant of v: the same scalar, or an object of the same kind
\* and class with as many positions, the same keys, message, stack, window
\* and bytes
SameVariant(v, w) ==
    IF ~IsRef(v) THEN v = w
    ELSE /\ IsRef(w)
         /\ LET a == heap[IdOf(v)]
                b == dHeap[IdOf(w)]
            IN  /\ a.k = b.k /\ a.cls = b.cls
                /\ Len(a.items) = Len(b.items)
                /\ a.keys = b.keys
                /\ a.k = "error" => (a.s1 = b.s1 /\ a.s2 = b.s2)
                /\ a.n1 = b.n1 /\ a.n2 = b.n2
                /\ bytesOf(heap, a) = bytesOf(dHeap, b)

\* the offset of the tag encodeImpl wrote for the object v
writtenAt(v) == eBody[indexOf(eRefs, v) + 1]

\* w is the object decoded from the bytes written for the object v
Counterpart(v, w) == IsRef(w) /\ dBody[IdOf(w)] = writtenAt(v)

\* the number of positions of the input that hold v
occurrences(v) ==
    (IF root = v THEN 1 ELSE 0)
    + Cardinality({ p \in (1..Len(heap)) \X (1..(2 * MaxItems)) :
                      p[2] <= Len(heap[p[1]].items) /\ heap[p[1]].items[p[2]] = v })

\* the value reached from v along path, a sequence of position numbers;
\* VHole when the path leaves the graph (or, with containersOnly, a container)
RECURSIVE follow(_, _, _, _)
follow(hp, v, path, containersOnly) ==
    IF path = <<>> THEN v
    ELSE IF ~IsRef(v) THEN VHole
    ELSE IF containersOnly /\ ~isContainer(hp[IdOf(v)]) THEN VHole
    ELSE IF Head(path) > Len(hp[IdOf(v)].items) THEN VHole
    ELSE follow(hp, hp[IdOf(v)].items[Head(path)], Tail(path), containersOnly)

\* the paths of at most as many steps as the input has objects
Paths == UNION { [1..n -> 1..(2 * MaxItems)] : n \in 1..Len(heap) }

RoundTripped == phase = "decoded" /\ decCodec = encCodec

\* the classes of the built-in referrable variants
BuiltinClasses ==
    {"Array", "Object", "Set", "Map", "ArrayBuffer"} \cup ErrorClasses \cup ViewClasses

(***************************** properties ***********************************)
\* C1: a value built from the built-in variants that encode accepts decodes
\* to a structurally equal value: at every position of the graph the decoded
\* value is of the variant of the input.
C1_RoundTrip ==
    (RoundTripped /\ ~HasForeign(heap)) =>
        \A p \in Corresponding : SameVariant(p[1], p[2])

\* C2: when the input holds one referrable object at two positions, every
\* corresponding position of the result holds the object decoded from that
\* object's bytes (so the positions hold one object, and the right one).
C2_Identity ==
    RoundTripped =>
        \A p \in Corresponding :
            (IsRef(p[1]) /\ occurrences(p[1]) >= 2) => Counterpart(p[1], p[2])

\* C3: when the encoded value is a container that a path through containers
\* leads back to, the same path from the decoded value leads back to the
\* decoded value.
C3_ContainerCycles ==
    (RoundTripped /\ IsRef(root) /\ isContainer(heap[1])) =>
        \A path \in Paths :
            follow(heap, root, path, TRUE) = root
                => follow(dHeap, dRes, path, FALSE) = dRes

\* C4: when the encoded value is a container that holds one extension object
\* at two of its positions (no error in the graph), the decoded container
\* holds at these positions one object, the one the extension's decode made
\* from the reduced value of that object.
C4_SharedExtension ==
    (/\ RoundTripped
     /\ \A n \in 1..Len(heap) : heap[n].k # "error"
     /\ IsRef(root) /\ isContainer(heap[1])) =>
        \A i, j \in 1..Len(heap[1].items) :
            (/\ i < j
             /\ heap[1].items[i] = heap[1].items[j]
             /\ IsRef(heap[1].items[i])
             /\ heap[IdOf(heap[1].items[i])].k = "foreign") =>
                /\ IsRef(dRes)
                /\ Len(dHeap[IdOf(dRes)].items) >= j
                /\ dHeap[IdOf(dRes)].items[i] = dHeap[IdOf(dRes)].items[j]
                /\ Counterpart(heap[1].items[i], dHeap[IdOf(dRes)].items[i])
                /\ SameVariant(heap[1].items[i], dHeap[IdOf(dRes)].items[i])

\* C5: while the cause of an error is decoded the error is already in the
\* table of referrables, and an encoded error that a path starting at its
\* cause leads back to decodes to an error the same path leads back to.
C5_ErrorCauseCycle ==
    /\ (ReadPending /\ dStack # <<>> /\ Head(dStack).f = "error") =>
          \E i \in 1..Len(dRefs) : dBody[dRefs[i]] = Head(dStack).at
    /\ (RoundTripped /\ IsRef(root) /\ heap[1].k = "error") =>
          \A path \in Paths :
              (path[1] = 1 /\ follow(heap, root, path, FALSE) = root)
                  => follow(dHeap, dRes, path, FALSE) = dRes

\* C6: a decode of what encode returned never reads at or past the end, and
\* when it returns its cursor is the length of the buffer.
C6_LengthExact ==
    /\ ReadPending => tagOff < Len(out)
    /\ phase = "decoded" => dOff = Len(out)

\* an error whose message has a two-byte character, with a stack and a
\* regular expression as cause, has been decoded to the end of the buffer
C6_Witness ==
    /\ phase = "decoded"
    /\ dOff = Len(out)
    /\ IsRef(root)
    /\ heap[1].k = "error" /\ heap[1].s1 = Str_he /\ heap[1].s2 = Str_a
    /\ heap[1].items[1] = VRegExp(Str_a, Str_g)

\* C7: encode throws NotSerializableError only with an object that is of no
\* built-in class and that no extension of the codec accepts.
C7_NotSerializableOnlyUnaccepted ==
    (phase = "encode_threw" /\ err.name = "NotSerializableError") =>
        /\ IsRef(err.v)
        /\ heap[IdOf(err.v)].cls \notin BuiltinClasses
        /\ firstAccepting(encCodec, 1, heap[IdOf(err.v)].cls) = 0

\* C8: when decodeImpl reads an extension tag whose name no extension of the
\* decoding codec has, decode throws IncompatibleCodec with that name and
\* returns nothing.
C8_IncompatibleCodec ==
    [][(Decoding("extension") /\ extIndex = 0) =>
          /\ phase' = "decode_threw"
          /\ err' = [name |-> "IncompatibleCodecError", v |-> extName.v]
          /\ dRes' = dRes]_vars

\* a Magic object inside a graph, decoded by a codec that has only the URL
\* extension
C8_Witness ==
    /\ phase = "decode_threw"
    /\ decCodec = <<ExtURL>>
    /\ Len(heap) >= 2
    /\ err = [name |-> "IncompatibleCodecError", v |-> VString(Str_Magic)]

\* C9: encode of an array with an empty slot or an extra own key ends with
\* MalformedArrayError carrying the array, and with no bytes.
C9_MalformedRejected ==
    (/\ IsRef(root)
     /\ heap[1].k = "array"
     /\ heap[1].n1 > 0 \/ \E i \in 1..Len(heap[1].items) : heap[1].items[i] = VHole
     /\ phase \notin {"start", "encoding"}) =>
        /\ phase = "encode_threw"
        /\ err = [name |-> "MalformedArrayError", v |-> root]
        /\ out = <<>>

\* C10: a bigint of at most 255 chunks of 64 bits is encoded, and decoded to
\* itself with its sign; one of 256 chunks or more makes encode throw
\* BigIntTooLargeError with the bigint.
C10_BigIntBound ==
    root.t = "bigint" =>
        IF countUint64(root.b) <= MaxUint64Count
        THEN /\ phase # "encode_threw"
             /\ phase = "decoded" => dRes = root
        ELSE /\ phase \notin {"encoded", "decoding", "decoded"}
             /\ phase = "encode_threw" =>
                   err = [name |-> "BigIntTooLargeError", v |-> root]

\* a negative bigint of exactly 255 chunks has been decoded to itself
C10_Witness ==
    /\ phase = "decoded"
    /\ root.t = "bigint" /\ root.a = <<1>>
    /\ countUint64(root.b) = MaxUint64Count
    /\ dRes = root

\* C11: createCodec accepts a list of at most 128 extensions, and rejects at
\* construction time every list of more than 128: creating a codec from such
\* a list throws and no codec comes into being.
C11_ExtensionLimit ==
    [][ (phase = "new" /\ Len(encCodec) > MaxExtensions) => phase' = "create_threw" ]_vars

\* a codec of more than 128 extensions encoded an object with its last
\* extension and decoded it again
C11_Witness ==
    /\ Len(encCodec) > MaxExtensions
    /\ phase = "decoded"
    /\ dHeap[IdOf(dRes)].cls = "Last"

\* the calls of the given callbacks the running call has made, in order
callsOf(cbs) == SelectSeq(log, LAMBDA c : c.cb \in cbs)

\* the extensions of the encoding codec that accept the object v
accepting(v) == { j \in 1..Len(encCodec) : heap[IdOf(v)].cls \in encCodec[j].accepts }

\* C12: when several registered extensions accept a value outside the
\* built-in universe, encode uses the one registered first: the to_reduced
\* applied and the name emitted are that extension's, and the predicates of
\* later extensions are not consulted for that value.
C12_ExtensionPriority ==
    phase \in {"encoding", "encoded", "encode_threw"} =>
        /\ \A n \in 1..Len(log) :
              \A j \in accepting(log[n].v) : log[n].ext <= j
        /\ \A n \in 1..Len(log) :
              log[n].cb = "encode" => log[n].ext \in accepting(log[n].v)
        /\ \A n \in 1..Len(eRefs) :
              (heap[IdOf(eRefs[n])].k = "foreign" /\ phase # "encode_threw") =>
                  /\ out[eBody[n] + 1] = EXTENSION
                  /\ out[eBody[n] + 2] = STRING_TAG
                  /\ decodeString(out, eBody[n] + 2).ok
                  /\ \A j \in accepting(eRefs[n]) :
                        /\ firstNamed(encCodec, 1, decodeString(out, eBody[n] + 2).v.a) <= j
                        /\ firstNamed(encCodec, 1, decodeString(out, eBody[n] + 2).v.a)
                              \in accepting(eRefs[n])

\* a value the second and the third extension accept was encoded by the
\* second
C12_Witness ==
    /\ phase = "encoded"
    /\ \E n \in 1..Len(log) :
          /\ log[n].cb = "encode"
          /\ log[n].ext = 2
          /\ 3 \in accepting(log[n].v)

C15_FreshState ==
    /\ \A i, j \in 1..Len(hist) :
          (/\ hist[i].op = hist[j].op
           /\ hist[i].arg = hist[j].arg
           /\ hist[i].codec = hist[j].codec
           /\ hist[i].ctx = hist[j].ctx) => hist[i] = hist[j]
    /\ (phase = "encoding" /\ out = <<>>) => eRefs = <<>>
    /\ (phase = "decoding" /\ dOff = 0) => dRefs = <<>>
    /\ (phase = "decoding" /\ dRefs = <<>> /\ dStack = <<>>) => dOff = 0

\* the third call encoded an object an earlier call had encoded, after a call
\* that threw
C15_Witness ==
    /\ Len(hist) = 3
    /\ hist[1].op = "encode" /\ hist[1].ok /\ IsRef(hist[1].arg)
    /\ ~hist[2].ok
    /\ hist[3].op = "encode" /\ hist[3].arg = hist[1].arg /\ hist[3].codec = hist[1].codec
    /\ hist[3].ctx = hist[1].ctx

\* the objects of a graph no built-in arm takes, in the order of their numbers
foreignIds(hp) == SelectSeq([i \in 1..Len(hp) |-> i], LAMBDA i : hp[i].k = "foreign")

\* the offsets at which encode wrote the tag of an extension value
extensionOffsets ==
    { eBody[n] : n \in { m \in 1..Len(eRefs) : heap[IdOf(eRefs[m])].k = "foreign" } }

\* the offsets of the extension values decode has called from_reduced for, and
\* of those whose reduced value it is still decoding
calledOffsets == { dBody[n] : n \in { m \in 1..Len(dRefs) : dHeap[dRefs[m]].k = "foreign" } }
openOffsets == { dStack[n].at : n \in { m \in 1..Len(dStack) : dStack[m].f = "ext" } }

raises(n) ==
    LET codec == IF log[n].cb = "decode" THEN decCodec ELSE encCodec
    IN  /\ log[n].cb \in codec[log[n].ext].fails
        /\ log[n].cb = "when" => log[n].ext \in accepting(log[n].v)

Threw == {"encode_threw", "decode_threw"}

C16_Aborted ==
    /\ \A n \in 1..Len(log) :
          raises(n) => /\ n = Len(log)
                       /\ phase \in Threw
                       /\ err = CallbackError
    /\ phase = "encode_threw" => out = <<>> /\ eStack = <<>> /\ err # NoError
    /\ phase = "decode_threw" => dRes = VUndef /\ dStack = <<>> /\ err # NoError
    /\ phase \in Threw =>
          /\ ~hist[Len(hist)].ok
          /\ hist[Len(hist)].out = <<>>
          /\ hist[Len(hist)].res = VUndef /\ hist[Len(hist)].heap = <<>>
          /\ hist[Len(hist)].err = err
    /\ phase \notin Threw => err = NoError

\* C16: if an extension predicate or transformer raises E during encode or
\* decode, the top-level call raises that same E and returns no bytes and no
\* partially built value; likewise every codec error aborts the whole call:
\* once the call has thrown it takes no further step.
C16_ErrorPropagation == []C16_Aborted /\ [][phase \notin Threw]_vars

\* from_reduced of the enclosing extension value threw after from_reduced of
\* the nested one had returned
C16_Witness ==
    /\ phase = "decode_threw"
    /\ err = CallbackError
    /\ Len(callsOf({"decode"})) = 2
    /\ dHeap # <<>>

\* the declared length of the payload of the string, the ArrayBuffer or the
\* backing buffer of the view whose tag is at offset p, and where it starts
declared(p) ==
    LET bufferLength == decodeVarint(out, p + 1)
        byteOffset == decodeVarint(out, bufferLength.off)
        viewLength == decodeVarint(out, byteOffset.off)
    IN  IF decoderOf(out[p + 1]) = "view"
        THEN [ok |-> bufferLength.ok /\ byteOffset.ok /\ viewLength.ok,
              length |-> bufferLength.num, start |-> viewLength.off]
        ELSE [ok |-> bufferLength.ok, length |-> bufferLength.num,
              start |-> bufferLength.off]

\* the payload declared at p does not fit in what remains of the buffer
tooLong(p) == declared(p).ok /\ declared(p).length > Len(out) - declared(p).start

\* C17: decode fails with an error, and returns no value, whenever a declared
\* payload length exceeds the bytes remaining in the input: for a string (the
\* call throws as it reads it), and for a raw byte buffer and the backing
\* buffer of an element view (no call returns a value with such an object).
C17_LengthChecked ==
    /\ [][ (/\ ReadPending
            /\ inObject => keyRead.ok
            /\ tagOff >= 0 /\ tagOff < Len(out)
            /\ decoderOf(typeTag) = "string"
            /\ tooLong(tagOff)) => phase' = "decode_threw" /\ dRes' = dRes ]_vars
    /\ [](phase = "decoded" =>
            \A n \in 1..Len(dBody) :
                (/\ dBody[n] >= 0
                 /\ decoderOf(out[dBody[n] + 1]) \in {"arraybuffer", "view"}) =>
                    ~tooLong(dBody[n]))

\* C18: decode fails with an error whenever the byte read at a value position
\* is not one of the tags assigned in the tag registry: the call that reads
\* such a byte throws or goes on to read what the byte announces, and no
\* object of the result was decoded from such a byte.
C18_UnassignedTagRejected ==
    /\ [][ (/\ ReadPending
            /\ inObject => keyRead.ok
            /\ tagOff >= 0 /\ tagOff < Len(out)
            /\ typeTag \notin AssignedTags) =>
               phase' = "decode_threw" \/ Len(dStack') > Len(dStack) ]_vars
    /\ [](\A n \in 1..Len(dBody) :
            dBody[n] >= 0 => out[dBody[n] + 1] \in AssignedTags)


(******************************* tag routing ********************************)
\* the variant the encoder is about to write: the arm encodeImpl selects, or a
\* back-reference when the object was written before
variantOf(x) ==
    IF IsRef(x) /\ indexOf(eRefs, x) # -1 THEN "reference" ELSE encoderOf(x)

\* the tag the registry assigns to the variant of x
registryTag(x) ==
    LET variant == variantOf(x)
    IN  IF variant = "unique"
        THEN (CASE x.t = "null" -> NULL
                [] x.t = "undefined" -> UNDEFINED
                [] x.t = "true" -> TRUE_TAG
                [] OTHER -> FALSE_TAG)
        ELSE IF variant = "number" THEN NUMBER
        ELSE IF variant = "date" THEN DATE
        ELSE IF variant = "regexp" THEN REGEXP
        ELSE IF variant = "bigint" THEN (IF x.a = <<1>> THEN BIGINTN ELSE BIGINTP)
        ELSE IF variant = "string" THEN STRING_TAG
        ELSE IF variant = "reference" THEN REFERENCE
        ELSE IF variant = "array" THEN ARRAY
        ELSE IF variant = "object" THEN OBJECT
        ELSE IF variant = "set" THEN SET
        ELSE IF variant = "map" THEN MAP
        ELSE IF variant = "error" THEN tagOfError(heap[IdOf(x)].cls)
        ELSE IF variant = "arraybuffer" THEN ARRAYBUFFER
        ELSE IF variant = "view" THEN tagOfTypedArray(heap[IdOf(x)].cls)
        ELSE EXTENSION

\* the arm of decodeImpl that reads the variant of x back
armOf(x) ==
    LET variant == variantOf(x)
    IN  IF variant = "unique" THEN x.t
        ELSE IF variant = "bigint" THEN (IF x.a = <<1>> THEN "bigintn" ELSE "bigintp")
        ELSE variant

\* a step of the encoder that writes a value
writesValue ==
    /\ phase = "encoding" /\ eStack # <<>> /\ top.op = "val"
    /\ phase' = "encoding" /\ out' # out

\* C19: every value the encoder writes starts with the tag the registry
\* assigns to its variant, and the dispatch order of decodeImpl sends that tag
\* to the arm of the same variant (for an error and an element view: to the
\* same constructor), not to an earlier test of another variant
C19_TagRouting ==
    [][ writesValue =>
          LET x == top.v
              written == out'[Len(out) + Len(KeyBytes) + 1]
          IN  /\ written = registryTag(x)
              /\ decoderOf(written) = armOf(x)
              /\ variantOf(x) = "error" =>
                    constructorOfError(written) = heap[IdOf(x)].cls
              /\ variantOf(x) = "view" =>
                    constructorOfTypedArray(written) = heap[IdOf(x)].cls ]_vars

\* an ArrayBuffer was written with the exact raw-buffer tag and read back by
\* the raw-buffer arm, although the tag also has the buffer family bit
C19_Witness ==
    /\ phase = "decoded"
    /\ IsRef(root) /\ heap[IdOf(root)].cls = "ArrayBuffer"
    /\ out[1] = ARRAYBUFFER
    /\ BitAnd(out[1], ARRAYBUFFER) # 0
    /\ IsRef(dRes) /\ dHeap[IdOf(dRes)].k = "arraybuffer"


(************************* element-view round trip **************************)
\* C20: a valid view of one of the twelve kinds over a backing buffer of any
\* length decodes to a view of the same kind, with the same byte offset and
\* the same count (byte length for a DataView, element count otherwise), over
\* a buffer the decoder allocated that has the length and the bytes of the
\* whole original backing buffer, not only of the window
C20_ViewRoundTrip ==
    (/\ phase = "decoded"
     /\ IsRef(root) /\ heap[IdOf(root)].k = "view"
     /\ heap[IdOf(root)].cls \in ViewClasses)
    => LET view == heap[IdOf(root)]
           original == heap[view.buf].s1
       IN  /\ IsRef(dRes) /\ IdOf(dRes) \in DOMAIN dHeap
           /\ LET decoded == dHeap[IdOf(dRes)]
              IN  /\ decoded.k = "view"
                  /\ decoded.cls = view.cls
                  /\ decoded.n1 = view.n1
                  /\ decoded.n2 = view.n2
                  /\ decoded.buf \in DOMAIN dHeap
                  /\ dHeap[decoded.buf].k = "arraybuffer"
                  /\ Len(dHeap[decoded.buf].s1) = Len(original)
                  /\ dHeap[decoded.buf].s1 = original

\* a Float64Array of one element at byte offset 8 of a 16-byte buffer was
\* decoded
C20_Witness ==
    /\ phase = "decoded"
    /\ IsRef(root) /\ heap[IdOf(root)].k = "view"
    /\ heap[IdOf(root)].cls = "Float64Array"
    /\ heap[IdOf(root)].n1 = 8 /\ heap[IdOf(root)].n2 = 1
    /\ Len(heap[heap[IdOf(root)].buf].s1) = 16
    /\ IsRef(dRes) /\ dHeap[IdOf(dRes)].k = "view"


(************************* views sharing a buffer ***************************)
\* C21: two distinct views over one backing buffer, written in one call, are
\* decoded as two views over one and the same reconstructed buffer
C21_SharedBuffer ==
    phase = "decoded" =>
        \A i, j \in 1..Len(eRefs) :
            (/\ i # j
             /\ heap[IdOf(eRefs[i])].k = "view" /\ heap[IdOf(eRefs[j])].k = "view"
             /\ heap[IdOf(eRefs[i])].buf = heap[IdOf(eRefs[j])].buf)
            => (/\ i <= Len(dRefs) /\ j <= Len(dRefs)
                /\ dHeap[dRefs[i]].k = "view" /\ dHeap[dRefs[j]].k = "view"
                /\ dHeap[dRefs[i]].buf = dHeap[dRefs[j]].buf)


(*************************** encode on its own ******************************)
\* encode is synchronous: once called it runs until it returns or throws
NextEncode == CreateCodec \/ Encode \/ EncodeStep \/ EncodeReturn

SpecEncode == Init /\ [][NextEncode]_vars /\ WF_vars(NextEncode)

\* the objects encodeImpl meets from the root, in the order it meets them;
\* a Number or String object is written as its primitive, not as an object
metFromRoot ==
    SelectSeq(DfsOrder(heap, <<root>>, <<>>), LAMBDA id : heap[id].k # "wrapper")

\* a step that writes an object: the first time the object is appended to the
\* table in the step that writes its tag, when none of its children is
\* written yet; any other time a REFERENCE with its index is written and the
\* table is left alone
writesObjectOnce ==
    (writesValue /\ IsRef(top.v) /\ heap[IdOf(top.v)].k # "wrapper") =>
        LET at == Len(out) + Len(KeyBytes) + 1
        IN  IF indexOf(eRefs, top.v) = -1
            THEN /\ eRefs' = Append(eRefs, top.v)
                 /\ out'[at] # REFERENCE
                 /\ \A n \in 1..Len(eStack') - Len(eStack) + 1 :
                       eStack'[n].op = "val" =>
                          eStack'[n].v \in Range(heap[IdOf(top.v)].items) \cup {VUndef}
            ELSE /\ eRefs' = eRefs
                 /\ SubSeq(out', at, Len(out')) =
                       <<REFERENCE>> \o encodeVarint(indexOf(eRefs, top.v))
                 /\ eStack' = Tail(eStack)

\* when encode has returned, the table holds every object met from the root
\* once, in the order met, and each body starts after the one before it
tableOfDistinct ==
    phase = "encoded" =>
        /\ [n \in 1..Len(eRefs) |-> IdOf(eRefs[n])] = metFromRoot
        /\ \A m, n \in 1..Len(eRefs) : m < n => eBody[m] < eBody[n]

\* C22: encode of a graph of finitely many objects, cycles included, returns
\* or throws; the body of each object is written once, the object being in
\* the table before its children are written, and every later occurrence is
\* a back-reference
C22_CycleTolerance ==
    /\ (phase = "encoding") ~> (phase \in {"encoded", "encode_threw"})
    /\ [][writesObjectOnce]_vars
    /\ []tableOfDistinct

\* encode returned for an object that contains itself and for two objects
\* that contain each other
C22_Witness ==
    /\ phase = "encoded"
    /\ IsRef(root)
    /\ \/ root \in Range(heap[1].items)
       \/ /\ Len(heap) >= 2
          /\ VRef(2) \in Range(heap[1].items) /\ VRef(1) \in Range(heap[2].items)
    /\ \E n \in 1..Len(out) - 1 : out[n] = REFERENCE /\ out[n + 1] = 0


(***************************** wrapper objects ******************************)
\* the bytes encode returns for a primitive boolean, number or string
bytesOfPrimitive(p) ==
    IF p.t = "number" THEN encodeNumber(p)
    ELSE IF p.t = "string" THEN encodeString(p.a)
    ELSE IF p.t = "true" THEN <<TRUE_TAG>>
    ELSE <<FALSE_TAG>>

\* C23: an object made with new Boolean, new Number or new String is
\* accepted by encode and written with the bytes of the primitive it wraps
C23_WrapperAsPrimitive ==
    (IsRef(root) /\ heap[IdOf(root)].k = "wrapper") =>
        /\ phase # "encode_threw"
        /\ phase = "encoded" => out = bytesOfPrimitive(heap[IdOf(root)].items[1])

(************************ a key named "constructor" *************************)
\* C30: a plain object with an own key named "constructor", its values
\* encodable, is accepted by encode, written with the OBJECT tag and decoded
\* to a plain object with the same keys and values
C30_ConstructorKey ==
    (/\ IsRef(root) /\ heap[IdOf(root)].k = "object"
     /\ Str_constructor \in Range(heap[IdOf(root)].keys)) =>
        /\ phase # "encode_threw"
        /\ phase \in {"encoded", "decoding", "decoded"} => out[1] = OBJECT
        /\ phase = "decoded" =>
              /\ IsRef(dRes)
              /\ dHeap[IdOf(dRes)].keys = heap[IdOf(root)].keys
              /\ dHeap[IdOf(dRes)].items = heap[IdOf(root)].items


(*************************** table correspondence ***************************)
\* C24: while decode reads what encode returned, every object whose children
\* are being decoded is already in the decoder's table; a back-reference, when
\* it is decoded, names an entry the table already has; and when decode has
\* returned, entry i of its table is the object read from the body of entry i
\* of the encoder's table
C24_TableCorrespondence ==
    /\ phase = "decoding" =>
          \A n \in 1..Len(dStack) :
              \E i \in 1..Len(dRefs) : dBody[dRefs[i]] = dStack[n].at
    /\ Decoding("reference") =>
          /\ decodeVarint(out, tagOff + 1).ok
          /\ decodeVarint(out, tagOff + 1).num < Len(dRefs)
    /\ (phase = "decoded" /\ decCodec = encCodec) =>
          /\ Len(dRefs) = Len(eRefs)
          /\ \A i \in 1..Len(dRefs) : dBody[dRefs[i]] = eBody[i]


(**************************** append-only table *****************************)
IsPrefix(p, q) == Len(p) <= Len(q) /\ SubSeq(q, 1, Len(p)) = p

\* a step of one call leaves every entry of the tables where it is
tablesGrowAtEnd ==
    /\ (phase = "encoding" /\ phase' \in {"encoding", "encoded", "encode_threw"})
          => IsPrefix(eRefs, eRefs')
    /\ (phase = "decoding" /\ phase' \in {"decoding", "decoded", "decode_threw"})
          => IsPrefix(dRefs, dRefs')

\* a step that writes a back-reference writes the index of an entry of the
\* table that is the object itself
referenceToSelf ==
    (writesValue /\ out'[Len(out) + Len(KeyBytes) + 1] = REFERENCE) =>
        LET index == decodeVarint(out', Len(out) + Len(KeyBytes) + 1)
        IN  /\ index.ok /\ index.off = Len(out')
            /\ index.num >= 0 /\ index.num < Len(eRefs)
            /\ eRefs[index.num + 1] = top.v

\* C25: within one call the tables of referrables only grow at their end, an
\* entry is never changed or removed, the encoder's table holds no object
\* twice, and a back-reference carries the index of the entry that is the
\* identical object
C25_AppendOnly ==
    /\ [][tablesGrowAtEnd /\ referenceToSelf]_vars
    /\ [](Distinct(eRefs) /\ Distinct(dRefs))

\* a graph in which an object occurs at two places was encoded with a
\* back-reference and decoded, both tables holding three entries or more
C25_Witness ==
    /\ phase = "decoded"
    /\ Len(eRefs) >= 3 /\ Len(dRefs) >= 3
    /\ \E a, b \in 1..Len(heap) :
          \E i \in 1..Len(heap[a].items) : \E j \in 1..Len(heap[b].items) :
             /\ <<a, i>> # <<b, j>>
             /\ IsRef(heap[a].items[i])
             /\ heap[a].items[i] = heap[b].items[j]


(************************** the varint on its own ***************************)
\* a number of up to 32 bits in two halves: the number is hi * 2^16 + lo with
\* lo in 0..65535; hi is negative for a negative number
Uint32(hi, lo) == [hi |-> hi, lo |-> lo]

\* num >>> 7: the number is taken modulo 2^32 and shifted right
shiftRight7(num) == (num.hi % 65536) * 512 + (num.lo \div 128)

\* varIntByteCount(num) of a number given in halves
varIntByteCountOf(num) ==
    IF num.hi > 0 \/ (num.hi = 0 /\ num.lo >= 128)
    THEN 1 + varIntByteCount(shiftRight7(num))
    ELSE 1

\* encodeVarint(num) of a number given in halves
encodeVarintOf(num) ==
    LET byteCount == varIntByteCountOf(num)
    IN  <<BitOr(num.lo % 128, IF byteCount = 1 THEN 0 ELSE 128)>>
        \o encodeVarintFrom(shiftRight7(num), 1, byteCount)

\* the numbers given to encodeVarint: around the byte-count steps, around
\* 2^31 and 2^32, and negative ones
VarintInputs ==
    { Uint32(hi, lo) :
        hi \in {-32768, -1, 0, 1, 31, 32, 4095, 4096, 32767, 32768, 65535},
        lo \in {0, 1, 127, 128, 16383, 16384, 65535} }

\* root is the number given to encodeVarint, out the bytes it returned, dRes
\* the number decodeVarint returned for them and dOff the cursor it left
InitVarint ==
    /\ root \in VarintInputs
    /\ phase = "varint"
    /\ heap = <<>> /\ encCodec = <<>> /\ decCodec = <<>>
    /\ ctx = VUndef /\ log = <<>> /\ hist = <<>>
    /\ eStack = <<>> /\ eRefs = <<>> /\ eBody = <<>> /\ out = <<>>
    /\ err = NoError
    /\ dOff = 0 /\ dRefs = <<>> /\ dHeap = <<>> /\ dBody = <<>> /\ dStack = <<>>
    /\ dRes = 0

\* encodeVarint(num): it has no throw
EncodeVarint ==
    /\ phase = "varint"
    /\ out' = encodeVarintOf(root)
    /\ phase' = "varint_encoded"
    /\ UNCHANGED <<err, ctx, log, hist, eStack, eRefs, eBody>>
    /\ UNCHANGED inputVars
    /\ UNCHANGED decVars

\* decodeVarint(self, buffer) with self.offset = 0
DecodeVarint ==
    /\ phase = "varint_encoded"
    /\ LET r == decodeVarint(out, 0)
       IN  /\ dOff' = r.off
           /\ IF r.ok
              THEN phase' = "varint_decoded" /\ dRes' = r.num /\ err' = err
              ELSE /\ phase' = "varint_threw" /\ dRes' = dRes
                   /\ err' = [name |-> "Unreachable", v |-> VUndef]
    /\ UNCHANGED <<ctx, log, hist, dRefs, dHeap, dBody, dStack>>
    /\ UNCHANGED inputVars
    /\ UNCHANGED encVars

NextVarint == EncodeVarint \/ DecodeVarint

SpecVarint == InitVarint /\ [][NextVarint]_vars

\* the positions of the one-bits of a number given in halves
bitsOfNumber(num) ==
    { j \in 0..15 : (num.lo \div Pow2(j)) % 2 = 1 }
    \cup { 16 + j : j \in { k \in 0..15 : (num.hi \div Pow2(k)) % 2 = 1 } }

\* the positions of the one-bits of the number that bytes are the unsigned
\* LEB128 form of: seven bits a byte, the least significant group first
bitsOfLEB128(bytes) ==
    UNION { { 7 * (i - 1) + j : j \in { k \in 0..6 : (bytes[i] \div Pow2(k)) % 2 = 1 } } :
            i \in 1..Len(bytes) }

\* bytes are a minimal unsigned LEB128 form: the high bit is set on every
\* byte but the last, and the last group is not zero unless it is the only one
minimalLEB128(bytes) ==
    /\ Len(bytes) >= 1
    /\ \A i \in 1..Len(bytes) - 1 : bytes[i] >= 128
    /\ bytes[Len(bytes)] < 128
    /\ Len(bytes) > 1 => bytes[Len(bytes)] # 0

\* C26: for 0 <= n < 2^32, encodeVarint(n) is the minimal unsigned LEB128
\* form of n, and decodeVarint of it returns n and advances the cursor by
\* the number of bytes encodeVarint produced
C26_VarintRoundTrip ==
    (phase \in {"varint_encoded", "varint_decoded", "varint_threw"} /\ root.hi >= 0) =>
        /\ minimalLEB128(out)
        /\ bitsOfLEB128(out) = bitsOfNumber(root)
        /\ phase # "varint_threw"
        /\ phase = "varint_decoded" =>
              /\ dOff = Len(out)
              /\ dRes >= 0
              /\ dRes \div 65536 = root.hi
              /\ dRes % 65536 = root.lo

\* C27: encodeVarint of a negative number raises an error and returns no
\* bytes
C27_NegativeRejected ==
    (phase \in {"varint", "varint_encoded", "varint_decoded", "varint_threw"}
     /\ root.hi < 0) =>
        /\ phase \notin {"varint_encoded", "varint_decoded"}
        /\ out = <<>>


(********************* one reduction per extension object *******************)
\* the calls of an extension's encode in a log
encodeCallsIn(l) == SelectSeq(l, LAMBDA c : c.cb = "encode")

\* a step that writes an extension object: the first time the extension's
\* encode is called once and the tag, the name and then the reduced value are
\* written; any later time a back-reference is written and encode is not
\* called
reducesFirstOnly ==
    (writesValue /\ variantOf(top.v) \in {"extension", "reference"}) =>
        IF variantOf(top.v) = "extension"
        THEN LET i == firstAccepting(encCodec, 1, topNode.cls)
             IN  /\ encodeCallsIn(log') =
                       Append(encodeCallsIn(log), Call("encode", i, top.v, ctx))
                 /\ out' = out \o KeyBytes \o <<EXTENSION>> \o encodeString(encCodec[i].name)
                 /\ Head(eStack').v = topNode.items[1]
        ELSE /\ encodeCallsIn(log') = encodeCallsIn(log)
             /\ out'[Len(out) + Len(KeyBytes) + 1] = REFERENCE

\* within one encode no object is given to an extension's encode twice; when
\* decode has returned, an extension's decode has been called once for each
\* extension body encode wrote
reducedOnce ==
    /\ phase \in {"encoding", "encoded", "encode_threw"} =>
          Distinct([n \in 1..Len(encodeCallsIn(log)) |-> encodeCallsIn(log)[n].v])
    /\ phase = "decoded" =>
          /\ calledOffsets = extensionOffsets
          /\ Len(callsOf({"decode"})) = Cardinality(extensionOffsets)

\* C28: within one encode call an extension's encode is called at most once
\* for each extension object: the first occurrence writes the tag, the name
\* and the reduced value, every later one only a back-reference; decode calls
\* an extension's decode once for each extension body written
C28_ReducedOnce == [][reducesFirstOnly]_vars /\ []reducedOnce

\* an Array holding one URL at both of its positions was encoded and decoded
\* with one call of the extension's decode
C28_Witness ==
    /\ phase = "decoded"
    /\ Len(heap) = 2 /\ heap[1].k = "array" /\ heap[2].k = "foreign"
    /\ heap[1].items = <<VRef(2), VRef(2)>>
    /\ Len(callsOf({"decode"})) = 1
    /\ Cardinality(extensionOffsets) = 1


(******************************* nested calls *******************************)
\* the deepest nesting of calls made from inside extension callbacks
MaxDepth == 1

\* what an encode call resumes with when a call made from inside one of its
\* extension callbacks has returned: its own self.referrables and the bytes it
\* has put together so far
Resume(refs, body, bytes) ==
    [op |-> "resume", key |-> <<>>, v |-> VUndef, refs |-> refs, body |-> body,
     out |-> bytes]

\* nested calls made by callbacks over all the calls of a run
MaxNested == 2

nestedCalls == Cardinality({ n \in 1..Len(log) : log[n].cb = "nested" })

\* the callback of the running call has made a nested call for v
nestedFor(v) == \E n \in 1..Len(log) : log[n].cb = "nested" /\ log[n].v = v

\* an extension's encode(x, context), before it returns, calls encode of the
\* same codec on the reduced value: encode makes a new self with an empty
\* referrables for it
NestedEncode ==
    /\ Encoding("extension")
    /\ alreadyEncoded = -1
    /\ Cardinality({ n \in 1..Len(eStack) : eStack[n].op = "resume" }) < MaxDepth
    /\ ~nestedFor(top.v)
    /\ nestedCalls < MaxNested
    /\ eRefs' = <<>>
    /\ eBody' = <<>>
    /\ out' = <<>>
    /\ eStack' = <<Item(<<>>, topNode.items[1]), Resume(eRefs, eBody, out)>> \o eStack
    /\ log' = Append(log, Call("nested", firstAccepting(encCodec, 1, topNode.cls),
                               top.v, ctx))
    /\ UNCHANGED <<phase, err, ctx, hist>>
    /\ UNCHANGED inputVars
    /\ UNCHANGED decVars

\* the nested encode with the outer call's table handed back as the nested
\* call left it: one referrables array for all calls of a codec
NestedEncodeReturn_sharedTable ==
    /\ phase = "encoding"
    /\ eStack # <<>>
    /\ top.op = "resume"
    /\ eRefs' = top.refs \o eRefs
    /\ eBody' = top.body \o eBody
    /\ out' = top.out
    /\ eStack' = Tail(eStack)
    /\ UNCHANGED <<phase, err, ctx, log, hist>>
    /\ UNCHANGED inputVars
    /\ UNCHANGED decVars

\* the nested encode returns its buffer to the callback, which drops it; the
\* outer call goes on with its own self
NestedEncodeReturn ==
    /\ phase = "encoding"
    /\ eStack # <<>>
    /\ top.op = "resume"
    /\ eRefs' = top.refs
    /\ eBody' = top.body
    /\ out' = top.out
    /\ eStack' = Tail(eStack)
    /\ UNCHANGED <<phase, err, ctx, log, hist>>
    /\ UNCHANGED inputVars
    /\ UNCHANGED decVars

\* the frame under a nested decode: what the outer decode resumes with
ResumeFrame ==
    [f |-> "nested", id |-> 0, left |-> 1, key |-> <<>>, tag |-> 0, s1 |-> <<>>,
     s2 |-> <<>>, at |-> 0, off |-> dOff, refs |-> dRefs, heap |-> dHeap,
     body |-> dBody]

\* an extension's decode(reduced, context), before it returns, calls decode of
\* the same codec on the buffer: decode makes a new self with offset 0 and an
\* empty referrables for it
NestedDecode ==
    /\ phase = "decoding"
    /\ dStack # <<>>
    /\ Head(dStack).f = "ext"
    /\ Head(dStack).left = 0
    /\ Cardinality({ n \in 1..Len(dStack) : dStack[n].f = "nested" }) < MaxDepth
    /\ ~nestedFor(Head(dStack).key[1])
    /\ nestedCalls < MaxNested
    /\ dOff' = 0
    /\ dRefs' = <<>>
    /\ dStack' = <<ResumeFrame>> \o dStack
    /\ log' = Append(log, Call("nested", Head(dStack).tag, Head(dStack).key[1], ctx))
    /\ UNCHANGED <<dHeap, dBody, dRes, phase, err, ctx, hist>>
    /\ UNCHANGED inputVars
    /\ UNCHANGED encVars

\* the nested decode returns its value to the callback, which drops it; the
\* outer call goes on with its own self
NestedDecodeReturn ==
    /\ phase = "decoding"
    /\ dStack # <<>>
    /\ Head(dStack).f = "nested"
    /\ Head(dStack).left = 0
    /\ dOff' = Head(dStack).off
    /\ dRefs' = Head(dStack).refs
    /\ dHeap' = Head(dStack).heap
    /\ dBody' = Head(dStack).body
    /\ dStack' = Tail(dStack)
    /\ UNCHANGED <<dRes, phase, err, ctx, log, hist>>
    /\ UNCHANGED inputVars
    /\ UNCHANGED encVars

NextNested ==
    \/ NextCalls
    \/ NestedEncode \/ NestedEncodeReturn \/ NestedDecode \/ NestedDecodeReturn

\* the values and codecs of the calls whose callbacks may call the codec again:
\* those of InitCalls that are graphs of at most two objects
InitNested == InitCalls /\ Len(heap) <= 2

SpecNested == InitNested /\ [][NextNested]_vars

\* a nested call starts with an empty table, a nested decode at cursor 0, and
\* when it has returned the outer call has the table and the cursor, or the
\* bytes, it had when the callback began
ownState ==
    /\ (phase = "encoding" /\ phase' = "encoding" /\ Len(eStack') = Len(eStack) + 2)
          => (/\ eRefs' = <<>> /\ out' = <<>>
              /\ eStack'[2].op = "resume"
              /\ eStack'[2].refs = eRefs /\ eStack'[2].out = out)
    /\ (phase = "encoding" /\ eStack # <<>> /\ top.op = "resume" /\ phase' = "encoding")
          => (eRefs' = top.refs /\ out' = top.out)
    /\ (phase = "decoding" /\ phase' = "decoding"
        /\ dStack' # <<>> /\ Head(dStack').f = "nested" /\ Head(dStack').left = 1
        /\ Len(dStack') = Len(dStack) + 1)
          => (/\ dRefs' = <<>> /\ dOff' = 0
              /\ Head(dStack').refs = dRefs /\ Head(dStack').off = dOff)
    /\ (phase = "decoding" /\ dStack # <<>> /\ Head(dStack).f = "nested"
        /\ Head(dStack).left = 0 /\ phase' = "decoding")
          => (dRefs' = Head(dStack).refs /\ dOff' = Head(dStack).off)

\* a call returns or throws the same whether or not callbacks of it, or of an
\* earlier call, made nested calls
sameOutcome ==
    \A i, j \in 1..Len(hist) :
        (/\ hist[i].op = hist[j].op
         /\ hist[i].arg = hist[j].arg
         /\ hist[i].codec = hist[j].codec
         /\ hist[i].ctx = hist[j].ctx) => hist[i] = hist[j]

\* C29: a call made by an extension callback on the same codec, inside an
\* encode or a decode, has a table and a cursor of its own; the table, the
\* cursor and the result of the outer call are what they are without the
\* nested call
C29_DisjointState == [][ownState]_vars /\ []sameOutcome

\* the second encode of an object, during which a callback made a nested
\* encode, returned what the first encode returned
C29_Witness ==
    /\ phase = "encoded"
    /\ Len(hist) = 2
    /\ hist[1].op = "encode" /\ hist[1].ok
    /\ hist[2].op = "encode" /\ hist[2].arg = hist[1].arg
    /\ hist[2].codec = hist[1].codec /\ hist[2].ctx = hist[1].ctx
    /\ \E n \in 1..Len(log) : log[n].cb = "nested"
    /\ Len(eRefs) >= 2

====
